---- MODULE Spec2Model ----
(***************************************************************************)
(* A model of the AArch64 Exception Syndrome Register decoder of           *)
(* aarch64-esr-decoder: FieldInfo and its combinators (src/src/lib.rs),    *)
(* the top-level decode with its Exception Class dispatch                  *)
(* (src/src/esr/mod.rs) and the per-class ISS decoders (src/src/esr/*.rs,  *)
(* src/src/breakpoint.rs, src/src/msr.rs).                                 *)
(*                                                                         *)
(* A u64 register is a function from bit index 0..63 to {0,1}, because the *)
(* model checker's integers are 32 bits wide.  A field value is an integer *)
(* (below 2^31: the widest fields are 27 bits in an ESR, 31 in an SMCCC    *)
(* function ID, and the 32-bit RES0 of a MIDR is explored with bit 63      *)
(* clear).                                                                 *)
(***************************************************************************)
EXTENDS Integers, Sequences, FiniteSets, TLC

VARIABLES
    op,      \* the decoder called: "decode", "decode_midr" or "decode_smccc"
    input,   \* the u64 register value passed to it
    pc,      \* "call" before the call, "done" after it
    result   \* what the call returned

vars == <<op, input, pc, result>>

(***************************************************************************)
(* u64 registers and bit extraction (bit_field::BitField::get_bits).       *)
(***************************************************************************)
BitIndex == 0..63

\* The u64 whose value is the integer n (0 <= n < 2^31).
ToU64(n) == [i \in BitIndex |-> IF i < 31 THEN (n \div (2^i)) % 2 ELSE 0]

\* The u64 with the 16-bit limbs l3:l2:l1:l0 (l0 least significant).
U64(l3, l2, l1, l0) ==
    [i \in BitIndex |->
        LET limb == CASE i \div 16 = 0 -> l0
                      [] i \div 16 = 1 -> l1
                      [] i \div 16 = 2 -> l2
                      [] OTHER -> l3
        IN (limb \div (2^(i % 16))) % 2]

RECURSIVE get_bits(_, _, _)
get_bits(register, start, end) ==
    IF start >= end THEN 0
    ELSE register[start] + 2 * get_bits(register, start + 1, end)

(***************************************************************************)
(* Option, DecodeError and Result.                                         *)
(***************************************************************************)
None == <<>>
Some(x) == <<x>>

NoError == [kind |-> "None", value |-> 0]
InvalidRes0(res0) == [kind |-> "InvalidRes0", value |-> res0]
InvalidEc(ec) == [kind |-> "InvalidEc", value |-> ec]
InvalidFsc(fsc) == [kind |-> "InvalidFsc", value |-> fsc]
InvalidSet(set) == [kind |-> "InvalidSet", value |-> set]
InvalidAet(aet) == [kind |-> "InvalidAet", value |-> aet]
InvalidAm(am) == [kind |-> "InvalidAm", value |-> am]
InvalidLd64bIss(iss) == [kind |-> "InvalidLd64bIss", value |-> iss]
\* A failed assert! or a reached unreachable!(): the call does not return.
Panic == [kind |-> "Panic", value |-> 0]

\* The value of a failed step; never part of a returned result.
NoField == [name |-> "", long_name |-> None, start |-> 0, width |-> 0,
            value |-> 0, description |-> None, subfields |-> <<>>]

\* Result<FieldInfo, DecodeError>
OkField(f) == [ok |-> TRUE, field |-> f, error |-> NoError]
ErrField(e) == [ok |-> FALSE, field |-> NoField, error |-> e]

\* Result<&'static str, DecodeError>
OkStr(s) == [ok |-> TRUE, str |-> s, error |-> NoError]
ErrStr(e) == [ok |-> FALSE, str |-> "", error |-> e]

\* Result<Vec<FieldInfo>, DecodeError>, with the optional ISS description
\* that decode_iss_msr returns beside its fields.
Ok(fields) == [ok |-> TRUE, fields |-> fields, description |-> None, error |-> NoError]
OkDescribed(fields, description) ==
    [ok |-> TRUE, fields |-> fields, description |-> description, error |-> NoError]
Err(e) == [ok |-> FALSE, fields |-> <<>>, description |-> None, error |-> e]

\* The `?` operator over the steps of a decoder, in evaluation order: the
\* first failing step's error is returned, otherwise the value `out`.
Try(steps, out) ==
    IF \A i \in 1..Len(steps) : steps[i].ok
    THEN out
    ELSE LET first == CHOOSE i \in 1..Len(steps) :
                          /\ ~steps[i].ok
                          /\ \A j \in 1..(i - 1) : steps[j].ok
         IN Err(steps[first].error)

(***************************************************************************)
(* FieldInfo (src/src/lib.rs).                                             *)
(***************************************************************************)
\* get reading the range as if its end were inclusive of one bit less.
get_drops_top_bit(register, name, long_name, start, end) ==
    [name |-> name, long_name |-> long_name, start |-> start, width |-> end - start,
     value |-> get_bits(register, start, end - 1), description |-> None,
     subfields |-> <<>>]

get(register, name, long_name, start, end) ==
    [name |-> name, long_name |-> long_name, start |-> start, width |-> end - start,
     value |-> get_bits(register, start, end), description |-> None,
     subfields |-> <<>>]

\* get_bit taking two bits instead of one.
get_bit_two_wide(register, name, long_name, bit) ==
    get(register, name, long_name, bit, bit + 2)

get_bit(register, name, long_name, bit) == get(register, name, long_name, bit, bit + 1)

\* with_description also clearing the value.
with_description_clearing_value(self, description) ==
    [self EXCEPT !.description = Some(description), !.subfields = <<>>, !.value = 0]

with_description(self, description) ==
    [self EXCEPT !.description = Some(description), !.subfields = <<>>]

\* as_bit reading a set bit as false.
as_bit_inverted(self) ==
    IF self.width = 1
    THEN [ok |-> TRUE, bit |-> self.value = 0, error |-> NoError]
    ELSE [ok |-> FALSE, bit |-> FALSE, error |-> Panic]

\* as_bit: assert!(self.width == 1) panics on a field that is not one bit
\* wide (ok is FALSE, the call does not return); otherwise bit is
\* self.value == 1.
as_bit(self) ==
    IF self.width = 1
    THEN [ok |-> TRUE, bit |-> self.value = 1, error |-> NoError]
    ELSE [ok |-> FALSE, bit |-> FALSE, error |-> Panic]

\* describe_bit calls as_bit first and describes the bit it returns.
describe_bit(self, describer(_)) ==
    LET bit == as_bit(self)
    IN IF ~bit.ok THEN ErrField(bit.error)
       ELSE OkField(with_description(self, describer(bit.bit)))

describe(self, describer(_)) ==
    LET description == describer(self.value)
    IN IF description.ok THEN OkField(with_description(self, description.str))
       ELSE ErrField(description.error)

check_res0(self) ==
    IF self.value # 0 THEN ErrField(InvalidRes0(self.value)) ELSE OkField(self)

(***************************************************************************)
(* Instruction Abort and Data Abort (src/src/esr/abort.rs).                *)
(***************************************************************************)
describe_isv(isv) ==
    IF isv THEN "Valid instruction syndrome" ELSE "No valid instruction syndrome"

describe_sf(sf) == IF sf THEN "64-bit wide register" ELSE "32-bit wide register"

describe_ar(ar) ==
    IF ar THEN "Acquire/release semantics" ELSE "No acquire/release semantics"

describe_fnv(fnv) ==
    IF fnv THEN "FAR is not valid, it holds an unknown value" ELSE "FAR is valid"

describe_wnr(wnr) ==
    IF wnr THEN "Abort caused by writing to memory"
    ELSE "Abort caused by reading from memory"

\* The match on sas.value and the Display of the SyndromeAccessSize it yields.
SyndromeAccessSize(sas) ==
    CASE sas = 0 -> OkStr("byte")
      [] sas = 1 -> OkStr("halfword")
      [] sas = 2 -> OkStr("word")
      [] sas = 3 -> OkStr("doubleword")
      [] OTHER -> ErrStr(Panic)

\* describe_fsc with an arm for the undefined code 0b010010.
describe_fsc_accepts_0b010010(fsc) ==
    CASE fsc = 0 -> OkStr("Address size fault, level 0 of translation or translation table base register.")
      [] fsc = 1 -> OkStr("Address size fault, level 1.")
      [] fsc = 2 -> OkStr("Address size fault, level 2.")
      [] fsc = 3 -> OkStr("Address size fault, level 3.")
      [] fsc = 4 -> OkStr("Translation fault, level 0.")
      [] fsc = 5 -> OkStr("Translation fault, level 1.")
      [] fsc = 6 -> OkStr("Translation fault, level 2.")
      [] fsc = 7 -> OkStr("Translation fault, level 3.")
      [] fsc = 9 -> OkStr("Access flag fault, level 1.")
      [] fsc = 10 -> OkStr("Access flag fault, level 2.")
      [] fsc = 11 -> OkStr("Access flag fault, level 3.")
      [] fsc = 8 -> OkStr("Access flag fault, level 0.")
      [] fsc = 12 -> OkStr("Permission fault, level 0.")
      [] fsc = 13 -> OkStr("Permission fault, level 1.")
      [] fsc = 14 -> OkStr("Permission fault, level 2.")
      [] fsc = 15 -> OkStr("Permission fault, level 3.")
      [] fsc = 16 -> OkStr("Synchronous External abort, not on translation table walk or hardware update of translation table.")
      [] fsc = 17 -> OkStr("Synchronous Tag Check Fault.")
      [] fsc = 19 -> OkStr("Synchronous External abort on translation table walk or hardware update of translation table, level -1.")
      [] fsc = 20 -> OkStr("Synchronous External abort on translation table walk or hardware update of translation table, level 0.")
      [] fsc = 21 -> OkStr("Synchronous External abort on translation table walk or hardware update of translation table, level 1.")
      [] fsc = 22 -> OkStr("Synchronous External abort on translation table walk or hardware update of translation table, level 2.")
      [] fsc = 23 -> OkStr("Synchronous External abort on translation table walk or hardware update of translation table, level 3.")
      [] fsc = 24 -> OkStr("Synchronous parity or ECC error on memory access, not on translation table walk.")
      [] fsc = 27 -> OkStr("Synchronous parity or ECC error on memory access on translation table walk or hardware update of translation table, level -1.")
      [] fsc = 28 -> OkStr("Synchronous parity or ECC error on memory access on translation table walk or hardware update of translation table, level 0.")
      [] fsc = 29 -> OkStr("Synchronous parity or ECC error on memory access on translation table walk or hardware update of translation table, level 1.")
      [] fsc = 30 -> OkStr("Synchronous parity or ECC error on memory access on translation table walk or hardware update of translation table, level 2.")
      [] fsc = 31 -> OkStr("Synchronous parity or ECC error on memory access on translation table walk or hardware update of translation table, level 3.")
      [] fsc = 33 -> OkStr("Alignment fault.")
      [] fsc = 41 -> OkStr("Address size fault, level -1.")
      [] fsc = 43 -> OkStr("Translation fault, level -1.")
      [] fsc = 48 -> OkStr("TLB conflict abort.")
      [] fsc = 49 -> OkStr("Unsupported atomic hardware update fault.")
      [] fsc = 52 -> OkStr("IMPLEMENTATION DEFINED fault (Lockdown).")
      [] fsc = 53 -> OkStr("IMPLEMENTATION DEFINED fault (Unsupported Exclusive or Atomic access).")
      [] fsc = 18 -> OkStr("Synchronous External abort.")
      [] OTHER -> ErrStr(InvalidFsc(fsc))

describe_fsc(fsc) ==
    CASE fsc = 0 -> OkStr("Address size fault, level 0 of translation or translation table base register.")
      [] fsc = 1 -> OkStr("Address size fault, level 1.")
      [] fsc = 2 -> OkStr("Address size fault, level 2.")
      [] fsc = 3 -> OkStr("Address size fault, level 3.")
      [] fsc = 4 -> OkStr("Translation fault, level 0.")
      [] fsc = 5 -> OkStr("Translation fault, level 1.")
      [] fsc = 6 -> OkStr("Translation fault, level 2.")
      [] fsc = 7 -> OkStr("Translation fault, level 3.")
      [] fsc = 9 -> OkStr("Access flag fault, level 1.")
      [] fsc = 10 -> OkStr("Access flag fault, level 2.")
      [] fsc = 11 -> OkStr("Access flag fault, level 3.")
      [] fsc = 8 -> OkStr("Access flag fault, level 0.")
      [] fsc = 12 -> OkStr("Permission fault, level 0.")
      [] fsc = 13 -> OkStr("Permission fault, level 1.")
      [] fsc = 14 -> OkStr("Permission fault, level 2.")
      [] fsc = 15 -> OkStr("Permission fault, level 3.")
      [] fsc = 16 -> OkStr("Synchronous External abort, not on translation table walk or hardware update of translation table.")
      [] fsc = 17 -> OkStr("Synchronous Tag Check Fault.")
      [] fsc = 19 -> OkStr("Synchronous External abort on translation table walk or hardware update of translation table, level -1.")
      [] fsc = 20 -> OkStr("Synchronous External abort on translation table walk or hardware update of translation table, level 0.")
      [] fsc = 21 -> OkStr("Synchronous External abort on translation table walk or hardware update of translation table, level 1.")
      [] fsc = 22 -> OkStr("Synchronous External abort on translation table walk or hardware update of translation table, level 2.")
      [] fsc = 23 -> OkStr("Synchronous External abort on translation table walk or hardware update of translation table, level 3.")
      [] fsc = 24 -> OkStr("Synchronous parity or ECC error on memory access, not on translation table walk.")
      [] fsc = 27 -> OkStr("Synchronous parity or ECC error on memory access on translation table walk or hardware update of translation table, level -1.")
      [] fsc = 28 -> OkStr("Synchronous parity or ECC error on memory access on translation table walk or hardware update of translation table, level 0.")
      [] fsc = 29 -> OkStr("Synchronous parity or ECC error on memory access on translation table walk or hardware update of translation table, level 1.")
      [] fsc = 30 -> OkStr("Synchronous parity or ECC error on memory access on translation table walk or hardware update of translation table, level 2.")
      [] fsc = 31 -> OkStr("Synchronous parity or ECC error on memory access on translation table walk or hardware update of translation table, level 3.")
      [] fsc = 33 -> OkStr("Alignment fault.")
      [] fsc = 41 -> OkStr("Address size fault, level -1.")
      [] fsc = 43 -> OkStr("Translation fault, level -1.")
      [] fsc = 48 -> OkStr("TLB conflict abort.")
      [] fsc = 49 -> OkStr("Unsupported atomic hardware update fault.")
      [] fsc = 52 -> OkStr("IMPLEMENTATION DEFINED fault (Lockdown).")
      [] fsc = 53 -> OkStr("IMPLEMENTATION DEFINED fault (Unsupported Exclusive or Atomic access).")
      [] OTHER -> ErrStr(InvalidFsc(fsc))

\* describe_set with an arm for 0b01.
describe_set_accepts_0b01(set) ==
    CASE set = 0 -> OkStr("Recoverable state (UER)")
      [] set = 1 -> OkStr("Recoverable state (UER)")
      [] set = 2 -> OkStr("Uncontainable (UC)")
      [] set = 3 -> OkStr("Restartable state (UEO)")
      [] OTHER -> ErrStr(InvalidSet(set))

describe_set(set) ==
    CASE set = 0 -> OkStr("Recoverable state (UER)")
      [] set = 2 -> OkStr("Uncontainable (UC)")
      [] set = 3 -> OkStr("Restartable state (UEO)")
      [] OTHER -> ErrStr(InvalidSet(set))

\* decode_iss_instruction_abort looking the IFSC up before its RES0 checks.
decode_iss_instruction_abort_fsc_first(iss_value) ==
    LET iss == ToU64(iss_value)
        res0a == check_res0(get(iss, "RES0", Some("Reserved"), 13, 25))
        fnv == describe_bit(get_bit(iss, "FnV", Some("FAR not Valid"), 10), describe_fnv)
        ea == get_bit(iss, "EA", Some("External abort type"), 9)
        res0b == check_res0(get_bit(iss, "RES0", Some("Reserved"), 8))
        s1ptw == get_bit(iss, "S1PTW", Some("Stage-1 translation table walk"), 7)
        res0c == check_res0(get_bit(iss, "RES0", Some("Reserved"), 6))
        ifsc == describe(get(iss, "IFSC", Some("Instruction Fault Status Code"), 0, 6),
                         describe_fsc)
        set == IF ifsc.field.value = 16
               THEN describe(get(iss, "SET", Some("Synchronous Error Type"), 11, 13),
                             describe_set)
               ELSE OkField(get(iss, "RES0", Some("Reserved"), 11, 13))
    IN Try(<<ifsc, set, res0a, fnv, res0b, res0c>>,
           Ok(<<res0a.field, set.field, fnv.field, ea, res0b.field, s1ptw,
                res0c.field, ifsc.field>>))

decode_iss_instruction_abort(iss_value) ==
    LET iss == ToU64(iss_value)
        res0a == check_res0(get(iss, "RES0", Some("Reserved"), 13, 25))
        fnv == describe_bit(get_bit(iss, "FnV", Some("FAR not Valid"), 10), describe_fnv)
        ea == get_bit(iss, "EA", Some("External abort type"), 9)
        res0b == check_res0(get_bit(iss, "RES0", Some("Reserved"), 8))
        s1ptw == get_bit(iss, "S1PTW", Some("Stage-1 translation table walk"), 7)
        res0c == check_res0(get_bit(iss, "RES0", Some("Reserved"), 6))
        ifsc == describe(get(iss, "IFSC", Some("Instruction Fault Status Code"), 0, 6),
                         describe_fsc)
        set == IF ifsc.field.value = 16
               THEN describe(get(iss, "SET", Some("Synchronous Error Type"), 11, 13),
                             describe_set)
               ELSE OkField(get(iss, "RES0", Some("Reserved"), 11, 13))
    IN Try(<<res0a, fnv, res0b, res0c, ifsc, set>>,
           Ok(<<res0a.field, set.field, fnv.field, ea, res0b.field, s1ptw,
                res0c.field, ifsc.field>>))

decode_iss_data_abort(iss_value) ==
    LET iss == ToU64(iss_value)
        isv == describe_bit(get_bit(iss, "ISV", Some("Instruction Syndrome Valid"), 24),
                            describe_isv)
        \* These fields are part of the instruction syndrome, and are only
        \* valid if ISV is true.
        sas == describe(get(iss, "SAS", Some("Syndrome Access Size"), 22, 24),
                        SyndromeAccessSize)
        sse == get_bit(iss, "SSE", Some("Syndrome Sign Extend"), 21)
        srt == get(iss, "SRT", Some("Syndrome Register Transfer"), 16, 21)
        sf == describe_bit(get_bit(iss, "SF", Some("Sixty-Four"), 15), describe_sf)
        ar == describe_bit(get_bit(iss, "AR", Some("Acquire/Release"), 14), describe_ar)
        res0 == check_res0(get(iss, "RES0", Some("Reserved"), 14, 24))
        syndrome_steps == IF as_bit(isv.field).bit THEN <<sas, sf, ar>> ELSE <<res0>>
        intruction_syndrome_fields ==
            IF as_bit(isv.field).bit
            THEN <<sas.field, sse, srt, sf.field, ar.field>>
            ELSE <<res0.field>>
        vncr == get_bit(iss, "VNCR", None, 13)
        fnv == describe_bit(get_bit(iss, "FnV", Some("FAR not Valid"), 10), describe_fnv)
        ea == get_bit(iss, "EA", Some("External abort type"), 9)
        cm == get_bit(iss, "CM", Some("Cache Maintenance"), 8)
        s1ptw == get_bit(iss, "S1PTW", Some("Stage-1 translation table walk"), 7)
        wnr == describe_bit(get_bit(iss, "WnR", Some("Write not Read"), 6), describe_wnr)
        dfsc == describe(get(iss, "DFSC", Some("Data Fault Status Code"), 0, 6),
                         describe_fsc)
        set == IF dfsc.field.value = 16
               THEN describe(get(iss, "SET", Some("Synchronous Error Type"), 11, 13),
                             describe_set)
               ELSE OkField(get(iss, "RES0", Some("Reserved"), 11, 13))
    IN Try(<<isv, as_bit(isv.field)>> \o syndrome_steps \o <<fnv, wnr, dfsc, set>>,
           Ok(<<isv.field>> \o intruction_syndrome_fields \o
              <<vncr, set.field, fnv.field, ea, cm, s1ptw, wnr.field, dfsc.field>>))


(***************************************************************************)
(* Classes whose ISS is RES0 (src/src/esr/mod.rs).                         *)
(***************************************************************************)
\* decode_iss_res0 without the check of the ISS.
decode_iss_res0_unchecked(iss_value) ==
    LET iss == ToU64(iss_value)
        res0 == get(iss, "RES0", Some("Reserved"), 0, 25)
    IN Ok(<<with_description(res0, "ISS is RES0")>>)

decode_iss_res0(iss_value) ==
    LET iss == ToU64(iss_value)
        res0 == check_res0(get(iss, "RES0", Some("Reserved"), 0, 25))
    IN Try(<<res0>>, Ok(<<with_description(res0.field, "ISS is RES0")>>))

(***************************************************************************)
(* Condition code valid (esr/common.rs) and SVC, HVC, SMC (esr/hvc.rs).    *)
(***************************************************************************)
describe_cv(cv) == IF cv THEN "COND is valid" ELSE "COND is not valid"

decode_iss_hvc(iss_value) ==
    LET iss == ToU64(iss_value)
        res0 == check_res0(get(iss, "RES0", Some("Reserved"), 16, 25))
        imm16 == get(iss, "imm16", Some("Value of the immediate field"), 0, 16)
    IN Try(<<res0>>, Ok(<<res0.field, imm16>>))

(***************************************************************************)
(* WF* (src/src/esr/wf.rs).                                                *)
(***************************************************************************)
describe_rv(rv) == IF rv THEN "RN is valid" ELSE "RN is not valid"

\* describe_ti with no arm for 0b11, which then falls to unreachable!().
describe_ti_three_arms(ti) ==
    CASE ti = 0 -> OkStr("WFI trapped")
      [] ti = 1 -> OkStr("WFE trapped")
      [] ti = 2 -> OkStr("WFIT trapped")
      [] OTHER -> ErrStr(Panic)

describe_ti(ti) ==
    CASE ti = 0 -> OkStr("WFI trapped")
      [] ti = 1 -> OkStr("WFE trapped")
      [] ti = 2 -> OkStr("WFIT trapped")
      [] ti = 3 -> OkStr("WFET trapped")
      [] OTHER -> ErrStr(Panic)

decode_iss_wf(iss_value) ==
    LET iss == ToU64(iss_value)
        cv == describe_bit(get_bit(iss, "CV", Some("Condition code valid"), 24), describe_cv)
        cond == get(iss, "COND", Some("Condition code of the trapped instruction"), 20, 24)
        res0a == check_res0(get(iss, "RES0", Some("Reserved"), 10, 20))
        rn == get(iss, "RN", Some("Register Number"), 5, 10)
        res0b == check_res0(get(iss, "RES0", Some("Reserved"), 3, 5))
        rv == describe_bit(get_bit(iss, "RV", Some("Register Valid"), 2), describe_rv)
        ti == describe(get(iss, "TI", Some("Trapped Instruction"), 0, 2), describe_ti)
    IN Try(<<cv, res0a, res0b, rv, ti>>,
           Ok(<<cv.field, cond, res0a.field, rn, res0b.field, rv.field, ti.field>>))

(***************************************************************************)
(* MCR/MRC and MCRR/MRRC (src/src/esr/mcr.rs).                             *)
(***************************************************************************)
mcr_describe_direction(direction) ==
    IF direction THEN "Read from system register (MRC or VMRS)"
    ELSE "Write to system register (MCR)"

decode_iss_mcr(iss_value) ==
    LET iss == ToU64(iss_value)
        cv == describe_bit(get_bit(iss, "CV", Some("Condition code valid"), 24), describe_cv)
        cond == get(iss, "COND", Some("Condition code of the trapped instruction"), 20, 24)
        opc2 == get(iss, "Opc2", None, 17, 20)
        opc1 == get(iss, "Opc1", None, 14, 17)
        crn == get(iss, "CRn", None, 10, 14)
        rt == get(iss, "Rt", None, 5, 10)
        crm == get(iss, "CRm", None, 1, 5)
        direction == describe_bit(get_bit(iss, "Direction",
                                          Some("Direction of the trapped instruction"), 0),
                                  mcr_describe_direction)
    IN Try(<<cv, direction>>,
           Ok(<<cv.field, cond, opc2, opc1, crn, rt, crm, direction.field>>))

decode_iss_mcrr(iss_value) ==
    LET iss == ToU64(iss_value)
        cv == describe_bit(get_bit(iss, "CV", Some("Condition code valid"), 24), describe_cv)
        cond == get(iss, "COND", Some("Condition code of the trapped instruction"), 20, 24)
        opc1 == get(iss, "Opc2", None, 16, 20)
        res0 == check_res0(get_bit(iss, "RES0", Some("Reserved"), 15))
        rt2 == get(iss, "Rt2", None, 10, 15)
        rt == get(iss, "Rt", None, 5, 10)
        crm == get(iss, "CRm", None, 1, 5)
        direction == describe_bit(get_bit(iss, "Direction",
                                          Some("Direction of the trapped instruction"), 0),
                                  mcr_describe_direction)
    IN Try(<<cv, res0, direction>>,
           Ok(<<cv.field, cond, opc1, res0.field, rt2, rt, crm, direction.field>>))

(***************************************************************************)
(* LDC/STC (src/src/esr/ldc.rs).                                           *)
(***************************************************************************)
describe_offset(offset) == IF offset THEN "Add offset" ELSE "Subtract offset"

describe_am(am) ==
    CASE am = 0 -> OkStr("Immediate unindexed")
      [] am = 1 -> OkStr("Immediate post-indexed")
      [] am = 2 -> OkStr("Immediate offset")
      [] am = 3 -> OkStr("Immediate pre-indexed")
      [] am = 4 -> OkStr("Reserved for trapped STR or T32 LDC")
      [] am = 6 -> OkStr("Reserved for trapped STC")
      [] OTHER -> ErrStr(InvalidAm(am))

ldc_describe_direction(direction) ==
    IF direction THEN "Read from memory (LDC)" ELSE "Write to memory (STC)"

decode_iss_ldc(iss_value) ==
    LET iss == ToU64(iss_value)
        cv == describe_bit(get_bit(iss, "CV", Some("Condition code valid"), 24), describe_cv)
        cond == get(iss, "COND", Some("Condition code of the trapped instruction"), 20, 24)
        imm8 == get(iss, "imm8", Some("Immediate value of the trapped instruction"), 12, 20)
        res0 == check_res0(get(iss, "RES0", Some("Reserved"), 10, 12))
        rn == get(iss, "Rn",
                  Some("General-purpose register number of the trapped instruction"), 5, 10)
        offset == describe_bit(get_bit(iss, "Offset",
                                       Some("Whether the offset is added or subtracted"), 4),
                               describe_offset)
        am == describe(get(iss, "AM", Some("Addressing Mode"), 1, 4), describe_am)
        direction == describe_bit(get_bit(iss, "Direction",
                                          Some("Direction of the trapped instruction"), 0),
                                  ldc_describe_direction)
    IN Try(<<cv, res0, offset, am, direction>>,
           Ok(<<cv.field, cond, imm8, res0.field, rn, offset.field, am.field,
                direction.field>>))

(***************************************************************************)
(* SVE, Advanced SIMD or FP trap (src/src/esr/sve.rs).                     *)
(***************************************************************************)
decode_iss_sve(iss_value) ==
    LET iss == ToU64(iss_value)
        cv == describe_bit(get_bit(iss, "CV", Some("Condition code valid"), 24), describe_cv)
        cond == get(iss, "COND", Some("Condition code of the trapped instruction"), 20, 24)
        res0 == check_res0(get(iss, "RES0", Some("Reserved"), 0, 20))
    IN Try(<<cv, res0>>, Ok(<<cv.field, cond, res0.field>>))

(***************************************************************************)
(* LD64B/ST64B (src/src/esr/ld64b.rs).                                     *)
(***************************************************************************)
\* describe_iss_ld64b with an arm for 0b11.
describe_iss_ld64b_accepts_0b11(iss) ==
    CASE iss = 0 -> OkStr("ST64BV trapped")
      [] iss = 1 -> OkStr("ST64BV0 trapped")
      [] iss = 2 -> OkStr("LD64B or ST64B trapped")
      [] iss = 3 -> OkStr("LD64B or ST64B trapped")
      [] OTHER -> ErrStr(InvalidLd64bIss(iss))

describe_iss_ld64b(iss) ==
    CASE iss = 0 -> OkStr("ST64BV trapped")
      [] iss = 1 -> OkStr("ST64BV0 trapped")
      [] iss = 2 -> OkStr("LD64B or ST64B trapped")
      [] OTHER -> ErrStr(InvalidLd64bIss(iss))

decode_iss_ld64b(iss_value) ==
    LET iss == describe(get(ToU64(iss_value), "ISS", None, 0, 25), describe_iss_ld64b)
    IN Try(<<iss>>, Ok(<<iss.field>>))

(***************************************************************************)
(* Branch Target Exception (src/src/esr/bti.rs).                           *)
(***************************************************************************)
\* decode_iss_bti returning a description for the ISS as decode_iss_msr does.
decode_iss_bti_described(iss_value) ==
    LET iss == ToU64(iss_value)
        res0 == check_res0(get(iss, "RES0", Some("Reserved"), 2, 25))
        btype == get(iss, "BTYPE", Some("PSTATE.BTYPE value"), 0, 2)
    IN Try(<<res0>>, OkDescribed(<<res0.field, btype>>, Some("BTYPE")))

decode_iss_bti(iss_value) ==
    LET iss == ToU64(iss_value)
        res0 == check_res0(get(iss, "RES0", Some("Reserved"), 2, 25))
        btype == get(iss, "BTYPE", Some("PSTATE.BTYPE value"), 0, 2)
    IN Try(<<res0>>, Ok(<<res0.field, btype>>))

(***************************************************************************)
(* Pointer Authentication failure (src/src/esr/pauth.rs).                  *)
(***************************************************************************)
describe_instruction_or_data(instruction_or_data) ==
    IF instruction_or_data THEN "Data Key" ELSE "Instruction Key"

describe_a_or_b(a_or_b) == IF a_or_b THEN "B Key" ELSE "A Key"

decode_iss_pauth(iss_value) ==
    LET iss == ToU64(iss_value)
        res0 == check_res0(get(iss, "RES0", Some("Reserved"), 2, 25))
        instruction_or_data ==
            describe_bit(get_bit(iss, "IorD", Some("Instruction key or Data key"), 1),
                         describe_instruction_or_data)
        a_or_b == describe_bit(get_bit(iss, "AorB", Some("A key or B key"), 0),
                               describe_a_or_b)
    IN Try(<<res0, instruction_or_data, a_or_b>>,
           Ok(<<res0.field, instruction_or_data.field, a_or_b.field>>))

(***************************************************************************)
(* Floating-point exception (src/src/esr/fp.rs).                           *)
(***************************************************************************)
describe_tfv(tfv) ==
    IF tfv THEN "One or more floating-point exceptions occurred; IDF, IXF, UFF, OFF, DZF and IOF hold information about what."
    ELSE "IDF, IXF, UFF, OFF, DZF and IOF do not hold valid information."

describe_idf(idf) ==
    IF idf THEN "Input denormal floating-point exception occurred."
    ELSE "Input denormal floating-point exception did not occur."

describe_ixf(ixf) ==
    IF ixf THEN "Inexact floating-point exception occurred."
    ELSE "Inexact floating-point exception did not occur."

describe_uff(uff) ==
    IF uff THEN "Underflow floating-point exception occurred."
    ELSE "Underflow floating-point exception did not occur."

describe_off(off) ==
    IF off THEN "Overflow floating-point exception occurred."
    ELSE "Overflow floating-point exception did not occur."

describe_dzf(dzf) ==
    IF dzf THEN "Divide by Zero floating-point exception occurred."
    ELSE "Divide by Zero floating-point exception did not occur."

describe_iof(iof) ==
    IF iof THEN "Invalid Operation floating-point exception occurred."
    ELSE "Invalid Operation floating-point exception did not occur."

decode_iss_fp(iss_value) ==
    LET iss == ToU64(iss_value)
        res0a == check_res0(get_bit(iss, "RES0", Some("Reserved"), 24))
        tfv == describe_bit(get_bit(iss, "TFV", Some("Trapped Fault Valid"), 23), describe_tfv)
        res0b == check_res0(get(iss, "RES0", Some("Reserved"), 11, 23))
        vecitr == get(iss, "VECITR", Some("RES1 or UNKNOWN"), 8, 11)
        idf == describe_bit(get_bit(iss, "IDF", Some("Input Denormal"), 7), describe_idf)
        res0c == check_res0(get(iss, "RES0", Some("Reserved"), 5, 7))
        ixf == describe_bit(get_bit(iss, "IXF", Some("Inexact"), 4), describe_ixf)
        uff == describe_bit(get_bit(iss, "UFF", Some("Underflow"), 3), describe_uff)
        off == describe_bit(get_bit(iss, "OFF", Some("Overflow"), 2), describe_off)
        dzf == describe_bit(get_bit(iss, "DZF", Some("Divide by Zero"), 1), describe_dzf)
        iof == describe_bit(get_bit(iss, "IOF", Some("Invalid Operation"), 0), describe_iof)
    IN Try(<<res0a, tfv, res0b, idf, res0c, ixf, uff, off, dzf, iof>>,
           Ok(<<res0a.field, tfv.field, res0b.field, vecitr, idf.field, res0c.field,
                ixf.field, uff.field, off.field, dzf.field, iof.field>>))

(***************************************************************************)
(* SError interrupt (src/src/esr/serror.rs).                               *)
(***************************************************************************)
describe_ids(ids) ==
    IF ids THEN "The rest of the ISS is encoded in an implementation-defined format"
    ELSE "The rest of the ISS is encoded according to the platform"

describe_iesb(iesb) ==
    IF iesb THEN "The SError interrupt was synchronized by the implicit error synchronization event and taken immediately."
    ELSE "The SError interrupt was not synchronized by the implicit error synchronization event or not taken immediately."

\* The last arm is written 0x110 in the source: hexadecimal, 272.
describe_aet(aet) ==
    CASE aet = 0 -> OkStr("Uncontainable (UC)")
      [] aet = 1 -> OkStr("Unrecoverable state (UEU)")
      [] aet = 2 -> OkStr("Restartable state (UEO)")
      [] aet = 3 -> OkStr("Recoverable state (UER)")
      [] aet = 272 -> OkStr("Corrected (CE)")
      [] OTHER -> ErrStr(InvalidAet(aet))

\* describe_dfsc with an arm for 0b010000.
describe_dfsc_accepts_0b010000(dfsc) ==
    CASE dfsc = 0 -> OkStr("Uncategorized error")
      [] dfsc = 16 -> OkStr("Asynchronous SError interrupt")
      [] dfsc = 17 -> OkStr("Asynchronous SError interrupt")
      [] OTHER -> ErrStr(InvalidFsc(dfsc))

describe_dfsc(dfsc) ==
    CASE dfsc = 0 -> OkStr("Uncategorized error")
      [] dfsc = 17 -> OkStr("Asynchronous SError interrupt")
      [] OTHER -> ErrStr(InvalidFsc(dfsc))

\* decode_iss_serror returning DFSC, which it decodes first, ahead of the
\* other platform fields.
decode_iss_serror_dfsc_first(iss_value) ==
    LET iss == ToU64(iss_value)
        ids == describe_bit(get_bit(iss, "IDS", Some("Implementation Defined Syndrome"), 24),
                            describe_ids)
        impdef == get(iss, "IMPDEF", Some("Implementation defined"), 0, 24)
        dfsc == describe(get(iss, "DFSC", Some("Data Fault Status Code"), 0, 6),
                         describe_dfsc)
        res0a == check_res0(get(iss, "RES0", Some("Reserved"), 14, 24))
        iesb == IF dfsc.field.value = 17
                THEN describe_bit(get_bit(iss, "IESB",
                                          Some("Implicit Error Synchronisation event"), 13),
                                  describe_iesb)
                ELSE check_res0(get_bit(iss, "RES0",
                                        Some("Reserved for this DFSC value"), 13))
        aet == describe(get(iss, "AET", Some("Asynchronous Error Type"), 10, 13),
                        describe_aet)
        ea == get_bit(iss, "EA", Some("External Abort type"), 9)
        res0b == check_res0(get(iss, "RES0", Some("Reserved"), 6, 9))
        platform_steps ==
            IF as_bit(ids.field).bit THEN <<>> ELSE <<dfsc, res0a, iesb, aet, res0b>>
        platform_fields ==
            IF as_bit(ids.field).bit THEN <<impdef>>
            ELSE <<dfsc.field, res0a.field, iesb.field, aet.field, ea, res0b.field>>
    IN Try(<<ids, as_bit(ids.field)>> \o platform_steps, Ok(<<ids.field>> \o platform_fields))

decode_iss_serror(iss_value) ==
    LET iss == ToU64(iss_value)
        ids == describe_bit(get_bit(iss, "IDS", Some("Implementation Defined Syndrome"), 24),
                            describe_ids)
        impdef == get(iss, "IMPDEF", Some("Implementation defined"), 0, 24)
        dfsc == describe(get(iss, "DFSC", Some("Data Fault Status Code"), 0, 6),
                         describe_dfsc)
        res0a == check_res0(get(iss, "RES0", Some("Reserved"), 14, 24))
        iesb == IF dfsc.field.value = 17
                THEN describe_bit(get_bit(iss, "IESB",
                                          Some("Implicit Error Synchronisation event"), 13),
                                  describe_iesb)
                ELSE check_res0(get_bit(iss, "RES0",
                                        Some("Reserved for this DFSC value"), 13))
        aet == describe(get(iss, "AET", Some("Asynchronous Error Type"), 10, 13),
                        describe_aet)
        ea == get_bit(iss, "EA", Some("External Abort type"), 9)
        res0b == check_res0(get(iss, "RES0", Some("Reserved"), 6, 9))
        platform_steps ==
            IF as_bit(ids.field).bit THEN <<>> ELSE <<dfsc, res0a, iesb, aet, res0b>>
        platform_fields ==
            IF as_bit(ids.field).bit THEN <<impdef>>
            ELSE <<res0a.field, iesb.field, aet.field, ea, res0b.field, dfsc.field>>
    IN Try(<<ids, as_bit(ids.field)>> \o platform_steps, Ok(<<ids.field>> \o platform_fields))

(***************************************************************************)
(* Breakpoint, Software Step, Watchpoint, BRK (src/src/breakpoint.rs).     *)
(***************************************************************************)
\* The describe_fsc of breakpoint.rs with an arm for 0b000000.
breakpoint_describe_fsc_accepts_zero(fsc) ==
    CASE fsc = 0 -> OkStr("Debug exception")
      [] fsc = 34 -> OkStr("Debug exception")
      [] OTHER -> ErrStr(InvalidFsc(fsc))

breakpoint_describe_fsc(fsc) ==
    CASE fsc = 34 -> OkStr("Debug exception")
      [] OTHER -> ErrStr(InvalidFsc(fsc))

breakpoint_describe_isv(isv) == IF isv THEN "EX bit is valid" ELSE "EX bit is RES0"

describe_ex(ex) ==
    IF ex THEN "A Load-Exclusive instruction was stepped"
    ELSE "Some instruction other than a Load-Exclusive was stepped"

breakpoint_describe_wnr(wnr) ==
    IF wnr THEN "Watchpoint caused by writing to memory"
    ELSE "Watchpoint caused by reading from memory"

decode_iss_breakpoint_vector_catch(iss_value) ==
    LET iss == ToU64(iss_value)
        res0 == check_res0(get(iss, "RES0", Some("Reserved"), 6, 25))
        ifsc == describe(get(iss, "IFSC", Some("Instruction Fault Status Code"), 0, 6),
                         breakpoint_describe_fsc)
    IN Try(<<res0, ifsc>>, Ok(<<res0.field, ifsc.field>>))

\* decode_iss_software_step emitting bit 6 as EX whatever ISV is.
decode_iss_software_step_ex_always(iss_value) ==
    LET iss == ToU64(iss_value)
        isv == describe_bit(get_bit(iss, "ISV", Some("Instruction Syndrome Valid"), 24),
                            breakpoint_describe_isv)
        res0 == check_res0(get(iss, "RES0", Some("Reserved"), 7, 24))
        ex == describe_bit(get_bit(iss, "EX", Some("Exclusive operation"), 6), describe_ex)
        ifsc == describe(get(iss, "IFSC", Some("Instruction Fault Status Code"), 0, 6),
                         breakpoint_describe_fsc)
    IN Try(<<isv, res0, ex, ifsc>>, Ok(<<isv.field, res0.field, ex.field, ifsc.field>>))

decode_iss_software_step(iss_value) ==
    LET iss == ToU64(iss_value)
        isv == describe_bit(get_bit(iss, "ISV", Some("Instruction Syndrome Valid"), 24),
                            breakpoint_describe_isv)
        res0 == check_res0(get(iss, "RES0", Some("Reserved"), 7, 24))
        ex == IF as_bit(isv.field).bit
              THEN describe_bit(get_bit(iss, "EX", Some("Exclusive operation"), 6),
                                describe_ex)
              ELSE check_res0(get_bit(iss, "RES0", Some("Reserved because ISV is false"), 6))
        ifsc == describe(get(iss, "IFSC", Some("Instruction Fault Status Code"), 0, 6),
                         breakpoint_describe_fsc)
    IN Try(<<isv, res0, as_bit(isv.field), ex, ifsc>>,
           Ok(<<isv.field, res0.field, ex.field, ifsc.field>>))

decode_iss_watchpoint(iss_value) ==
    LET iss == ToU64(iss_value)
        res0a == check_res0(get(iss, "RES0", Some("Reserved"), 15, 25))
        res0b == check_res0(get_bit(iss, "RES0", Some("Reserved"), 14))
        vncr == get_bit(iss, "VNCR", None, 13)
        res0c == check_res0(get(iss, "RES0", Some("Reserved"), 9, 13))
        cm == get_bit(iss, "CM", Some("Cache Maintenance"), 8)
        res0d == check_res0(get_bit(iss, "RES0", Some("Reserved"), 7))
        wnr == describe_bit(get_bit(iss, "WnR", Some("Write not Read"), 6),
                            breakpoint_describe_wnr)
        dfsc == describe(get(iss, "DFSC", Some("Data Fault Status Code"), 0, 6),
                         breakpoint_describe_fsc)
    IN Try(<<res0a, res0b, res0c, res0d, wnr, dfsc>>,
           Ok(<<res0a.field, res0b.field, vncr, res0c.field, cm, res0d.field,
                wnr.field, dfsc.field>>))

decode_iss_breakpoint(iss_value) ==
    LET iss == ToU64(iss_value)
        res0 == check_res0(get(iss, "RES0", Some("Reserved"), 16, 25))
        comment == get(iss, "Comment",
                       Some("Instruction comment field or immediate field"), 0, 16)
    IN Try(<<res0>>, Ok(<<res0.field, comment>>))

(***************************************************************************)
(* MSR/MRS (src/src/msr.rs).                                               *)
(***************************************************************************)
msr_describe_direction(direction) ==
    IF direction THEN "Read from system register (MRS)"
    ELSE "Write to system register (MSR)"

\* match (op0, crn, op1, crm, op2)
sysreg_name(op0, op1, op2, crn, crm) ==
    LET t == <<op0, crn, op1, crm, op2>> IN
    CASE t = <<3, 1, 0, 0, 1>> -> "ACTLR_EL1"
      [] t = <<3, 1, 4, 0, 1>> -> "ACTLR_EL2"
      [] t = <<3, 1, 6, 0, 1>> -> "ACTLR_EL3"
      [] t = <<3, 0, 1, 0, 7>> -> "AIDR_EL1"
      [] t = <<3, 5, 0, 1, 0>> -> "AFSR0_EL1"
      [] t = <<3, 5, 4, 1, 0>> -> "AFSR0_EL2"
      [] t = <<3, 5, 6, 1, 0>> -> "AFSR0_EL3"
      [] t = <<3, 5, 0, 1, 1>> -> "AFSR1_EL1"
      [] t = <<3, 5, 4, 1, 1>> -> "AFSR1_EL2"
      [] t = <<3, 5, 6, 1, 1>> -> "AFSR1_EL3"
      [] t = <<3, 10, 0, 3, 0>> -> "AMAIR_EL1"
      [] t = <<3, 10, 4, 3, 0>> -> "AMAIR_EL2"
      [] t = <<3, 10, 6, 3, 0>> -> "AMAIR_EL3"
      [] t = <<3, 0, 1, 0, 0>> -> "CCSIDR_EL1"
      [] t = <<3, 0, 1, 0, 1>> -> "CLIDR_EL1"
      [] t = <<3, 1, 0, 0, 2>> -> "CPACR_EL1"
      [] t = <<3, 1, 4, 1, 2>> -> "CPTR_EL2"
      [] t = <<3, 1, 6, 1, 2>> -> "CPTR_EL3"
      [] t = <<3, 0, 2, 0, 0>> -> "CSSELR_EL1"
      [] t = <<3, 0, 3, 0, 1>> -> "CTR_EL0"
      [] t = <<3, 12, 0, 1, 1>> -> "DISR_EL1"
      [] t = <<3, 5, 0, 3, 0>> -> "ERRIDR_EL1"
      [] t = <<3, 5, 0, 3, 1>> -> "ERRSELR_EL1"
      [] t = <<3, 5, 0, 4, 3>> -> "ERXADDR_EL1"
      [] t = <<3, 5, 0, 4, 1>> -> "ERXCTLR_EL1"
      [] t = <<3, 5, 0, 4, 0>> -> "ERXFR_EL1"
      [] t = <<3, 5, 0, 5, 0>> -> "ERXMISC0_EL1"
      [] t = <<3, 5, 0, 5, 1>> -> "ERXMISC1_EL1"
      [] t = <<3, 5, 0, 4, 2>> -> "ERXSTATUS_EL1"
      [] t = <<3, 5, 0, 2, 0>> -> "ESR_EL1"
      [] t = <<3, 5, 4, 2, 0>> -> "ESR_EL2"
      [] t = <<3, 5, 6, 2, 0>> -> "ESR_EL3"
      [] t = <<3, 1, 4, 1, 7>> -> "HACR_EL2"
      [] t = <<3, 1, 4, 1, 0>> -> "HCR_EL2"
      [] t = <<3, 0, 0, 1, 3>> -> "ID_AFR0_EL1"
      [] t = <<3, 0, 0, 1, 2>> -> "ID_DFR0_EL1"
      [] t = <<3, 0, 0, 2, 0>> -> "ID_ISAR0_EL1"
      [] t = <<3, 0, 0, 2, 1>> -> "ID_ISAR1_EL1"
      [] t = <<3, 0, 0, 2, 2>> -> "ID_ISAR2_EL1"
      [] t = <<3, 0, 0, 2, 3>> -> "ID_ISAR3_EL1"
      [] t = <<3, 0, 0, 2, 4>> -> "ID_ISAR4_EL1"
      [] t = <<3, 0, 0, 2, 5>> -> "ID_ISAR5_EL1"
      [] t = <<3, 0, 0, 2, 7>> -> "ID_ISAR6_EL1"
      [] t = <<3, 0, 0, 1, 4>> -> "ID_MMFR0_EL1"
      [] t = <<3, 0, 0, 1, 5>> -> "ID_MMFR1_EL1"
      [] t = <<3, 0, 0, 1, 6>> -> "ID_MMFR2_EL1"
      [] t = <<3, 0, 0, 1, 7>> -> "ID_MMFR3_EL1"
      [] t = <<3, 0, 0, 2, 6>> -> "ID_MMFR4_EL1"
      [] t = <<3, 0, 0, 1, 0>> -> "ID_PFR0_EL1"
      [] t = <<3, 0, 0, 1, 1>> -> "ID_PFR1_EL1"
      [] t = <<3, 0, 0, 3, 4>> -> "ID_PFR2_EL1"
      [] t = <<3, 0, 0, 5, 0>> -> "ID_AA64DFR0_EL1"
      [] t = <<3, 0, 0, 6, 0>> -> "ID_AA64ISAR0_EL1"
      [] t = <<3, 0, 0, 6, 1>> -> "ID_AA64ISAR1_EL1"
      [] t = <<3, 0, 0, 7, 0>> -> "ID_AA64MMFR0_EL1"
      [] t = <<3, 0, 0, 7, 1>> -> "ID_AA64MMFR1_EL1"
      [] t = <<3, 0, 0, 7, 2>> -> "ID_AA64MMFR2_EL1"
      [] t = <<3, 0, 0, 4, 0>> -> "ID_AA64PFR0_EL1"
      [] t = <<3, 5, 4, 0, 1>> -> "IFSR32_EL2"
      [] t = <<3, 10, 0, 4, 3>> -> "LORC_EL1"
      [] t = <<3, 10, 0, 4, 7>> -> "LORID_EL1"
      [] t = <<3, 10, 0, 4, 2>> -> "LORN_EL1"
      [] t = <<3, 1, 6, 3, 1>> -> "MDCR_EL3"
      [] t = <<3, 0, 0, 0, 0>> -> "MIDR_EL1"
      [] t = <<3, 0, 0, 0, 5>> -> "MPIDR_EL1"
      [] t = <<3, 7, 0, 4, 0>> -> "PAR_EL1"
      [] t = <<3, 12, 6, 0, 1>> -> "RVBAR_EL3"
      [] t = <<3, 0, 0, 0, 6>> -> "REVIDR_EL1"
      [] t = <<3, 1, 0, 0, 0>> -> "SCTLR_EL1"
      [] t = <<3, 1, 6, 0, 0>> -> "SCTLR_EL3"
      [] t = <<3, 2, 0, 0, 2>> -> "TCR_EL1"
      [] t = <<3, 2, 4, 0, 2>> -> "TCR_EL2"
      [] t = <<3, 2, 6, 0, 2>> -> "TCR_EL3"
      [] t = <<3, 2, 0, 0, 0>> -> "TTBR0_EL1"
      [] t = <<3, 2, 4, 0, 0>> -> "TTBR0_EL2"
      [] t = <<3, 2, 6, 0, 0>> -> "TTBR0_EL3"
      [] t = <<3, 2, 0, 0, 1>> -> "TTBR1_EL1"
      [] t = <<3, 2, 4, 0, 1>> -> "TTBR1_EL2"
      [] t = <<3, 12, 4, 1, 1>> -> "VDISR_EL2"
      [] t = <<3, 5, 4, 2, 3>> -> "VSESR_EL2"
      [] t = <<3, 2, 4, 1, 2>> -> "VTCR_EL2"
      [] t = <<3, 2, 4, 1, 0>> -> "VTTBR_EL2"
      [] t = <<3, 5, 5, 1, 0>> -> "AFSR0_EL12"
      [] t = <<3, 5, 5, 1, 1>> -> "AFSR1_EL12"
      [] t = <<3, 10, 5, 3, 0>> -> "AMAIR_EL12"
      [] t = <<3, 14, 3, 0, 0>> -> "CNTFRQ_EL0"
      [] t = <<3, 14, 4, 1, 0>> -> "CNTHCTL_EL2"
      [] t = <<3, 14, 4, 2, 1>> -> "CNTHP_CTL_EL2"
      [] t = <<3, 14, 4, 2, 2>> -> "CNTHP_CVAL_EL2"
      [] t = <<3, 14, 4, 2, 0>> -> "CNTHP_TVAL_EL2"
      [] t = <<3, 14, 4, 3, 1>> -> "CNTHV_CTL_EL2"
      [] t = <<3, 14, 4, 3, 2>> -> "CNTHV_CVAL_EL2"
      [] t = <<3, 14, 4, 3, 0>> -> "CNTHV_TVAL_EL2"
      [] t = <<3, 14, 0, 1, 0>> -> "CNTKCTL_EL1"
      [] t = <<3, 14, 5, 1, 0>> -> "CNTKCTL_EL12"
      [] t = <<3, 14, 3, 2, 1>> -> "CNTP_CTL_EL0"
      [] t = <<3, 14, 5, 2, 1>> -> "CNTP_CTL_EL02"
      [] t = <<3, 14, 3, 2, 2>> -> "CNTP_CVAL_EL0"
      [] t = <<3, 14, 5, 2, 2>> -> "CNTP_CVAL_EL02"
      [] t = <<3, 14, 3, 2, 0>> -> "CNTP_TVAL_EL0"
      [] t = <<3, 14, 5, 2, 0>> -> "CNTP_TVAL_EL02"
      [] t = <<3, 14, 3, 0, 1>> -> "CNTPCT_EL0"
      [] t = <<3, 14, 7, 2, 1>> -> "CNTPS_CTL_EL1"
      [] t = <<3, 14, 7, 2, 2>> -> "CNTPS_CVAL_EL1"
      [] t = <<3, 14, 7, 2, 0>> -> "CNTPS_TVAL_EL1"
      [] t = <<3, 14, 3, 3, 1>> -> "CNTV_CTL_EL0"
      [] t = <<3, 14, 5, 3, 1>> -> "CNTV_CTL_EL02"
      [] t = <<3, 14, 3, 3, 2>> -> "CNTV_CVAL_EL0"
      [] t = <<3, 14, 5, 3, 2>> -> "CNTV_CVAL_EL02"
      [] t = <<3, 14, 3, 3, 0>> -> "CNTV_TVAL_EL0"
      [] t = <<3, 14, 5, 3, 0>> -> "CNTV_TVAL_EL02"
      [] t = <<3, 14, 3, 0, 2>> -> "CNTVCT_EL0"
      [] t = <<3, 14, 4, 0, 3>> -> "CNTVOFF_EL2"
      [] t = <<3, 13, 0, 0, 1>> -> "CONTEXTIDR_EL1"
      [] t = <<3, 13, 5, 0, 1>> -> "CONTEXTIDR_EL12"
      [] t = <<3, 13, 4, 0, 1>> -> "CONTEXTIDR_EL2"
      [] t = <<3, 1, 5, 0, 2>> -> "CPACR_EL12"
      [] t = <<3, 3, 4, 0, 0>> -> "DACR32_EL2"
      [] t = <<3, 5, 5, 2, 0>> -> "ESR_EL12"
      [] t = <<3, 6, 0, 0, 0>> -> "FAR_EL1"
      [] t = <<3, 6, 5, 0, 0>> -> "FAR_EL12"
      [] t = <<3, 6, 4, 0, 0>> -> "FAR_EL2"
      [] t = <<3, 6, 6, 0, 0>> -> "FAR_EL3"
      [] t = <<3, 5, 4, 3, 0>> -> "FPEXC32_EL2"
      [] t = <<3, 6, 4, 0, 4>> -> "HPFAR_EL2"
      [] t = <<3, 1, 4, 1, 3>> -> "HSTR_EL2"
      [] t = <<3, 0, 0, 5, 4>> -> "ID_AA64AFR0_EL1"
      [] t = <<3, 0, 0, 5, 5>> -> "ID_AA64AFR1_EL1"
      [] t = <<3, 0, 0, 5, 1>> -> "ID_AA64DFR1_EL1"
      [] t = <<3, 0, 0, 4, 1>> -> "ID_AA64PFR1_EL1"
      [] t = <<3, 12, 0, 1, 0>> -> "ISR_EL1"
      [] t = <<3, 10, 0, 4, 1>> -> "LOREA_EL1"
      [] t = <<3, 10, 0, 4, 0>> -> "LORSA_EL1"
      [] t = <<3, 10, 0, 2, 0>> -> "MAIR_EL1"
      [] t = <<3, 10, 5, 2, 0>> -> "MAIR_EL12"
      [] t = <<3, 10, 4, 2, 0>> -> "MAIR_EL2"
      [] t = <<3, 10, 6, 2, 0>> -> "MAIR_EL3"
      [] t = <<3, 1, 4, 1, 1>> -> "MDCR_EL2"
      [] t = <<3, 0, 0, 3, 0>> -> "MVFR0_EL1"
      [] t = <<3, 0, 0, 3, 1>> -> "MVFR1_EL1"
      [] t = <<3, 0, 0, 3, 2>> -> "MVFR2_EL1"
      [] t = <<3, 12, 6, 0, 2>> -> "RMR_EL3"
      [] t = <<3, 1, 6, 1, 0>> -> "SCR_EL3"
      [] t = <<3, 1, 5, 0, 0>> -> "SCTLR_EL12"
      [] t = <<3, 1, 4, 0, 0>> -> "SCTLR_EL2"
      [] t = <<3, 1, 6, 1, 1>> -> "SDER32_EL3"
      [] t = <<3, 2, 5, 0, 2>> -> "TCR_EL12"
      [] t = <<3, 13, 3, 0, 2>> -> "TPIDR_EL0"
      [] t = <<3, 13, 0, 0, 4>> -> "TPIDR_EL1"
      [] t = <<3, 13, 4, 0, 2>> -> "TPIDR_EL2"
      [] t = <<3, 13, 6, 0, 2>> -> "TPIDR_EL3"
      [] t = <<3, 13, 3, 0, 3>> -> "TPIDRRO_EL0"
      [] t = <<3, 2, 5, 0, 0>> -> "TTBR0_EL12"
      [] t = <<3, 2, 5, 0, 1>> -> "TTBR1_EL12"
      [] t = <<3, 12, 0, 0, 0>> -> "VBAR_EL1"
      [] t = <<3, 12, 5, 0, 0>> -> "VBAR_EL12"
      [] t = <<3, 12, 4, 0, 0>> -> "VBAR_EL2"
      [] t = <<3, 12, 6, 0, 0>> -> "VBAR_EL3"
      [] t = <<3, 0, 4, 0, 5>> -> "VMPIDR_EL2"
      [] t = <<3, 0, 4, 0, 0>> -> "VPIDR_EL2"
      [] OTHER -> "unknown"

\* decode_iss_msr formatting a write as a read and a read as a write.
decode_iss_msr_direction_swapped(iss_value) ==
    LET iss == ToU64(iss_value)
        res0 == check_res0(get(iss, "RES0", Some("Reserved"), 22, 25))
        op0 == get(iss, "Op0", None, 20, 22)
        op2 == get(iss, "Op2", None, 17, 20)
        op1 == get(iss, "Op1", None, 14, 17)
        crn == get(iss, "CRn", None, 10, 14)
        rt == get(iss, "Rt",
                  Some("General-purpose register number of the trapped instruction"), 5, 10)
        crm == get(iss, "CRm", None, 1, 5)
        direction == describe_bit(get_bit(iss, "Direction",
                                          Some("Direction of the trapped instruction"), 0),
                                  msr_describe_direction)
        name == sysreg_name(op0.value, op1.value, op2.value, crn.value, crm.value)
        description == IF direction.field.value = 0
                       THEN "MRS x" \o ToString(rt.value) \o ", " \o name
                       ELSE "MSR " \o name \o ", x" \o ToString(rt.value)
    IN Try(<<res0, direction>>,
           OkDescribed(<<res0.field, op0, op2, op1, crn, rt, crm, direction.field>>,
                       Some(description)))

decode_iss_msr(iss_value) ==
    LET iss == ToU64(iss_value)
        res0 == check_res0(get(iss, "RES0", Some("Reserved"), 22, 25))
        op0 == get(iss, "Op0", None, 20, 22)
        op2 == get(iss, "Op2", None, 17, 20)
        op1 == get(iss, "Op1", None, 14, 17)
        crn == get(iss, "CRn", None, 10, 14)
        rt == get(iss, "Rt",
                  Some("General-purpose register number of the trapped instruction"), 5, 10)
        crm == get(iss, "CRm", None, 1, 5)
        direction == describe_bit(get_bit(iss, "Direction",
                                          Some("Direction of the trapped instruction"), 0),
                                  msr_describe_direction)
        name == sysreg_name(op0.value, op1.value, op2.value, crn.value, crm.value)
        description == IF direction.field.value = 0
                       THEN "MSR " \o name \o ", x" \o ToString(rt.value)
                       ELSE "MRS x" \o ToString(rt.value) \o ", " \o name
    IN Try(<<res0, direction>>,
           OkDescribed(<<res0.field, op0, op2, op1, crn, rt, crm, direction.field>>,
                       Some(description)))


(***************************************************************************)
(* The top-level ESR decoder (src/src/esr/mod.rs).                         *)
(***************************************************************************)
\* describe_il with its two descriptions exchanged.
describe_il_swapped(il) ==
    IF il THEN "16-bit instruction trapped" ELSE "32-bit instruction trapped"

describe_il(il) ==
    IF il THEN "32-bit instruction trapped" ELSE "16-bit instruction trapped"

Arm(class, iss_result) == [known |-> TRUE, class |-> class, iss |-> iss_result]
NoArm == [known |-> FALSE, class |-> "", iss |-> Err(NoError)]

\* match ec.value { ... }: the class description and the ISS decoder's result.
ec_match(ec, iss) ==
    CASE ec = 0 -> Arm("Unknown reason",
                       decode_iss_res0(iss))
      [] ec = 1 -> Arm("Wrapped WF* instruction execution",
                       decode_iss_wf(iss))
      [] ec = 3 -> Arm("Trapped MCR or MRC access with coproc=0b1111",
                       decode_iss_mcr(iss))
      [] ec = 4 -> Arm("Trapped MCRR or MRRC access with coproc=0b1111",
                       decode_iss_mcrr(iss))
      [] ec = 5 -> Arm("Trapped MCR or MRC access with coproc=0b1110",
                       decode_iss_mcr(iss))
      [] ec = 6 -> Arm("Trapped LDC or STC access",
                       decode_iss_ldc(iss))
      [] ec = 7 -> Arm("Trapped access to SVE, Advanced SIMD or floating point",
                       decode_iss_sve(iss))
      [] ec = 10 -> Arm("Trapped execution of an LD64B, ST64B, ST64BV, or ST64BV0 instruction",
                       decode_iss_ld64b(iss))
      [] ec = 12 -> Arm("Trapped MRRC access with (coproc==0b1110)",
                       decode_iss_mcrr(iss))
      [] ec = 13 -> Arm("Branch Target Exception",
                       decode_iss_bti(iss))
      [] ec = 14 -> Arm("Illegal Execution state",
                       decode_iss_res0(iss))
      [] ec = 17 -> Arm("SVC instruction execution in AArch32 state",
                       decode_iss_hvc(iss))
      [] ec = 21 -> Arm("SVC instruction execution in AArch64 state",
                       decode_iss_hvc(iss))
      [] ec = 22 -> Arm("HVC instruction execution in AArch64 state",
                       decode_iss_hvc(iss))
      [] ec = 23 -> Arm("SMC instruction execution in AArch64 state",
                       decode_iss_hvc(iss))
      [] ec = 24 -> Arm("Trapped MSR, MRS or System instruction execution in AArch64 state",
                       decode_iss_msr(iss))
      [] ec = 25 -> Arm("Access to SVE functionality trapped as a result of CPACR_EL1.ZEN, CPTR_EL2.ZEN, CPTR_EL2.TZ, or CPTR_EL3.EZ",
                       decode_iss_res0(iss))
      [] ec = 28 -> Arm("Exception from a Pointer Authentication instruction authentication failure",
                       decode_iss_pauth(iss))
      [] ec = 32 -> Arm("Instruction Abort from a lower Exception level",
                       decode_iss_instruction_abort(iss))
      [] ec = 33 -> Arm("Instruction Abort taken without a change in Exception level",
                       decode_iss_instruction_abort(iss))
      [] ec = 34 -> Arm("PC alignment fault exception",
                       decode_iss_res0(iss))
      [] ec = 36 -> Arm("Data Abort from a lower Exception level",
                       decode_iss_data_abort(iss))
      [] ec = 37 -> Arm("Data Abort taken without a change in Exception level",
                       decode_iss_data_abort(iss))
      [] ec = 38 -> Arm("SP alignment fault exception",
                       decode_iss_res0(iss))
      [] ec = 40 -> Arm("Trapped floating-point exception taken from AArch32 state",
                       decode_iss_fp(iss))
      [] ec = 44 -> Arm("Trapped floating-point exception taken from AArch64 state",
                       decode_iss_fp(iss))
      [] ec = 47 -> Arm("SError interrupt",
                       decode_iss_serror(iss))
      [] ec = 48 -> Arm("Breakpoint exception from a lower Exception level",
                       decode_iss_breakpoint_vector_catch(iss))
      [] ec = 49 -> Arm("Breakpoint exception taken without a change in Exception level",
                       decode_iss_breakpoint_vector_catch(iss))
      [] ec = 50 -> Arm("Software Step exception from a lower Exception level",
                       decode_iss_software_step(iss))
      [] ec = 51 -> Arm("Software Step exception taken without a change in Exception level",
                       decode_iss_software_step(iss))
      [] ec = 52 -> Arm("Watchpoint exception from a lower Exception level",
                       decode_iss_watchpoint(iss))
      [] ec = 53 -> Arm("Watchpoint exception taken without a change in Exception level",
                       decode_iss_watchpoint(iss))
      [] ec = 56 -> Arm("BKPT instruction execution in AArch32 state",
                       decode_iss_breakpoint(iss))
      [] ec = 60 -> Arm("BRK instruction execution in AArch64 state",
                       decode_iss_breakpoint(iss))
      [] OTHER -> NoArm

\* decode with the Exception Class dispatched before the RES0 check.
decode_dispatch_first(esr_value) ==
    LET res0 == check_res0(get(esr_value, "RES0", Some("Reserved"), 37, 64))
        iss2 == get(esr_value, "ISS2", None, 32, 37)
        ec == get(esr_value, "EC", Some("Exception Class"), 26, 32)
        il == describe_bit(get_bit(esr_value, "IL", Some("Instruction Length"), 25),
                           describe_il)
        iss == get(esr_value, "ISS", Some("Instruction Specific Syndrome"), 0, 25)
        arm == ec_match(ec.value, iss.value)
    IN IF ~il.ok THEN Err(il.error)
       ELSE IF ~arm.known THEN Err(InvalidEc(ec.value))
       ELSE IF ~arm.iss.ok THEN Err(arm.iss.error)
       ELSE IF ~res0.ok THEN Err(res0.error)
       ELSE Ok(<<res0.field,
                 iss2,
                 with_description(ec, arm.class),
                 il.field,
                 [iss EXCEPT !.description = arm.iss.description,
                             !.subfields = arm.iss.fields]>>)

\* decode with the Exception Class read from bits [26,31), one bit short.
decode_ec_five_bits(esr_value) ==
    LET res0 == check_res0(get(esr_value, "RES0", Some("Reserved"), 37, 64))
        iss2 == get(esr_value, "ISS2", None, 32, 37)
        ec == get(esr_value, "EC", Some("Exception Class"), 26, 31)
        il == describe_bit(get_bit(esr_value, "IL", Some("Instruction Length"), 25),
                           describe_il)
        iss == get(esr_value, "ISS", Some("Instruction Specific Syndrome"), 0, 25)
        arm == ec_match(ec.value, iss.value)
    IN IF ~res0.ok THEN Err(res0.error)
       ELSE IF ~il.ok THEN Err(il.error)
       ELSE IF ~arm.known THEN Err(InvalidEc(ec.value))
       ELSE IF ~arm.iss.ok THEN Err(arm.iss.error)
       ELSE Ok(<<res0.field,
                 iss2,
                 with_description(ec, arm.class),
                 il.field,
                 [iss EXCEPT !.description = arm.iss.description,
                             !.subfields = arm.iss.fields]>>)

\* decode with ISS2 checked like a RES0 field.
decode_checking_iss2(esr_value) ==
    LET res0 == check_res0(get(esr_value, "RES0", Some("Reserved"), 37, 64))
        iss2 == check_res0(get(esr_value, "ISS2", None, 32, 37))
        ec == get(esr_value, "EC", Some("Exception Class"), 26, 32)
        il == describe_bit(get_bit(esr_value, "IL", Some("Instruction Length"), 25),
                           describe_il)
        iss == get(esr_value, "ISS", Some("Instruction Specific Syndrome"), 0, 25)
        arm == ec_match(ec.value, iss.value)
    IN IF ~res0.ok THEN Err(res0.error)
       ELSE IF ~iss2.ok THEN Err(iss2.error)
       ELSE IF ~il.ok THEN Err(il.error)
       ELSE IF ~arm.known THEN Err(InvalidEc(ec.value))
       ELSE IF ~arm.iss.ok THEN Err(arm.iss.error)
       ELSE Ok(<<res0.field,
                 iss2.field,
                 with_description(ec, arm.class),
                 il.field,
                 [iss EXCEPT !.description = arm.iss.description,
                             !.subfields = arm.iss.fields]>>)

decode(esr_value) ==
    LET res0 == check_res0(get(esr_value, "RES0", Some("Reserved"), 37, 64))
        iss2 == get(esr_value, "ISS2", None, 32, 37)
        ec == get(esr_value, "EC", Some("Exception Class"), 26, 32)
        il == describe_bit(get_bit(esr_value, "IL", Some("Instruction Length"), 25),
                           describe_il)
        iss == get(esr_value, "ISS", Some("Instruction Specific Syndrome"), 0, 25)
        arm == ec_match(ec.value, iss.value)
    IN IF ~res0.ok THEN Err(res0.error)
       ELSE IF ~il.ok THEN Err(il.error)
       ELSE IF ~arm.known THEN Err(InvalidEc(ec.value))
       ELSE IF ~arm.iss.ok THEN Err(arm.iss.error)
       ELSE Ok(<<res0.field,
                 iss2,
                 with_description(ec, arm.class),
                 il.field,
                 [iss EXCEPT !.description = arm.iss.description,
                             !.subfields = arm.iss.fields]>>)


(***************************************************************************)
(* The Main ID Register decoder (src/src/midr.rs).                         *)
(***************************************************************************)
describe_implementer(implementer) ==
    CASE implementer = 0 -> OkStr("Reserved for software use")
      [] implementer = 192 -> OkStr("Ampere Computing")
      [] implementer = 65 -> OkStr("Arm Limited")
      [] implementer = 66 -> OkStr("Broadcom Corporation")
      [] implementer = 67 -> OkStr("Cavium Inc.")
      [] implementer = 68 -> OkStr("Digital Equipment Corporation")
      [] implementer = 70 -> OkStr("Fujitsu Ltd.")
      [] implementer = 73 -> OkStr("Infineon Technologies AG")
      [] implementer = 77 -> OkStr("Motorola or Freescale Semiconductor Inc.")
      [] implementer = 78 -> OkStr("NVIDIA Corporation")
      [] implementer = 80 -> OkStr("Applied Micro Circuits Corporation")
      [] implementer = 81 -> OkStr("Qualcomm Inc.")
      [] implementer = 86 -> OkStr("Marvell International Ltd.")
      [] implementer = 105 -> OkStr("Intel Corporation")
      [] OTHER -> OkStr("Unknown")

describe_architecture(architecture) ==
    CASE architecture = 1 -> OkStr("Armv4")
      [] architecture = 2 -> OkStr("Armv4T")
      [] architecture = 3 -> OkStr("Armv5")
      [] architecture = 4 -> OkStr("Armv5T")
      [] architecture = 5 -> OkStr("Armv5TE")
      [] architecture = 6 -> OkStr("Armv5TEJ")
      [] architecture = 7 -> OkStr("Armv6")
      [] architecture = 15 -> OkStr("Architectural features are individually identified")
      [] OTHER -> OkStr("Reserved")

\* decode_midr without the check of bits [32,64).
decode_midr_res0_unchecked(midr) ==
    LET res0 == get(midr, "RES0", Some("Reserved"), 32, 64)
        implementer == describe(get(midr, "Implementer", None, 24, 32), describe_implementer)
        variant == get(midr, "Variant", None, 20, 24)
        architecture == describe(get(midr, "Architecture", None, 16, 20),
                                 describe_architecture)
        part_num == get(midr, "PartNum", Some("Part number"), 4, 16)
        revision == get(midr, "Revision", None, 0, 4)
    IN Try(<<implementer, architecture>>,
           Ok(<<res0, implementer.field, variant, architecture.field, part_num,
                revision>>))

decode_midr(midr) ==
    LET res0 == check_res0(get(midr, "RES0", Some("Reserved"), 32, 64))
        implementer == describe(get(midr, "Implementer", None, 24, 32), describe_implementer)
        variant == get(midr, "Variant", None, 20, 24)
        architecture == describe(get(midr, "Architecture", None, 16, 20),
                                 describe_architecture)
        part_num == get(midr, "PartNum", Some("Part number"), 4, 16)
        revision == get(midr, "Revision", None, 0, 4)
    IN Try(<<res0, implementer, architecture>>,
           Ok(<<res0.field, implementer.field, variant, architecture.field, part_num,
                revision>>))

(***************************************************************************)
(* The SMCCC function ID decoder (src/src/smccc.rs, src/src/smccc/*.rs).   *)
(***************************************************************************)
FFA_ERROR == 96
FFA_SUCCESS == 97
FFA_INTERRUPT == 98
FFA_VERSION == 99
FFA_FEATURES == 100
FFA_RX_RELEASE == 101
FFA_RXTX_MAP == 102
FFA_RXTX_UNMAP == 103
FFA_PARTITION_INFO_GET == 104
FFA_ID_GET == 105
FFA_MSG_POLL == 106
FFA_MSG_WAIT == 107
FFA_YIELD == 108
FFA_RUN == 109
FFA_MSG_SEND == 110
FFA_MSG_SEND_DIRECT_REQ == 111
FFA_MSG_SEND_DIRECT_RESP == 112
FFA_MEM_DONATE == 113
FFA_MEM_LEND == 114
FFA_MEM_SHARE == 115
FFA_MEM_RETRIEVE_REQ == 116
FFA_MEM_RETRIEVE_RESP == 117
FFA_MEM_RELINQUISH == 118
FFA_MEM_RECLAIM == 119
FFA_MEM_OP_PAUSE == 120
FFA_MEM_OP_RESUME == 121
FFA_MEM_FRAG_RX == 122
FFA_MEM_FRAG_TX == 123
FFA_NORMAL_WORLD_RESUME == 124

ffa_32_function_id(function) ==
    CASE function = FFA_ERROR -> Some("FFA_ERROR_32")
      [] function = FFA_SUCCESS -> Some("FFA_SUCCESS_32")
      [] function = FFA_INTERRUPT -> Some("FFA_INTERRUPT_32")
      [] function = FFA_VERSION -> Some("FFA_VERSION_32")
      [] function = FFA_FEATURES -> Some("FFA_FEATURES_32")
      [] function = FFA_RX_RELEASE -> Some("FFA_RX_RELEASE_32")
      [] function = FFA_RXTX_MAP -> Some("FFA_RXTX_MAP_32")
      [] function = FFA_RXTX_UNMAP -> Some("FFA_RXTX_UNMAP_32")
      [] function = FFA_PARTITION_INFO_GET -> Some("FFA_PARTITION_INFO_GET_32")
      [] function = FFA_ID_GET -> Some("FFA_ID_GET_32")
      [] function = FFA_MSG_POLL -> Some("FFA_MSG_POLL_32")
      [] function = FFA_MSG_WAIT -> Some("FFA_MSG_WAIT_32")
      [] function = FFA_YIELD -> Some("FFA_YIELD_32")
      [] function = FFA_RUN -> Some("FFA_RUN_32")
      [] function = FFA_MSG_SEND -> Some("FFA_MSG_SEND_32")
      [] function = FFA_MSG_SEND_DIRECT_REQ -> Some("FFA_MSG_SEND_DIRECT_REQ_32")
      [] function = FFA_MSG_SEND_DIRECT_RESP -> Some("FFA_MSG_SEND_DIRECT_RESP_32")
      [] function = FFA_MEM_DONATE -> Some("FFA_MEM_DONATE_32")
      [] function = FFA_MEM_LEND -> Some("FFA_MEM_LEND_32")
      [] function = FFA_MEM_SHARE -> Some("FFA_MEM_SHARE_32")
      [] function = FFA_MEM_RETRIEVE_REQ -> Some("FFA_MEM_RETRIEVE_REQ_32")
      [] function = FFA_MEM_RETRIEVE_RESP -> Some("FFA_MEM_RETRIEVE_RESP_32")
      [] function = FFA_MEM_RELINQUISH -> Some("FFA_MEM_RELINQUISH_32")
      [] function = FFA_MEM_RECLAIM -> Some("FFA_MEM_RECLAIM_32")
      [] function = FFA_MEM_OP_PAUSE -> Some("FFA_MEM_OP_PAUSE")
      [] function = FFA_MEM_OP_RESUME -> Some("FFA_MEM_OP_RESUME")
      [] function = FFA_MEM_FRAG_RX -> Some("FFA_MEM_FRAG_RX_32")
      [] function = FFA_MEM_FRAG_TX -> Some("FFA_MEM_FRAG_TX_32")
      [] function = FFA_NORMAL_WORLD_RESUME -> Some("FFA_NORMAL_WORLD_RESUME")
      [] OTHER -> None

ffa_64_function_id(function) ==
    CASE function = FFA_RXTX_MAP -> Some("FFA_RXTX_MAP_64")
      [] function = FFA_MSG_SEND_DIRECT_REQ -> Some("FFA_MSG_SEND_DIRECT_REQ_64")
      [] function = FFA_MSG_SEND_DIRECT_RESP -> Some("FFA_MSG_SEND_DIRECT_RESP_64")
      [] function = FFA_MEM_DONATE -> Some("FFA_MEM_DONATE_64")
      [] function = FFA_MEM_LEND -> Some("FFA_MEM_LEND_64")
      [] function = FFA_MEM_SHARE -> Some("FFA_MEM_SHARE_64")
      [] function = FFA_MEM_RETRIEVE_REQ -> Some("FFA_MEM_RETRIEVE_REQ_64")
      [] OTHER -> None

reserved_fids(service) ==
    IF service >= 65280 /\ service <= 65535 THEN "Reserved for future expansion" ELSE ""

smccc_general32_queries(service) ==
    CASE service = 65280 -> "Call Count Query, deprecated from SMCCCv1.2"
      [] service = 65281 -> "Call UUID Query"
      [] service = 65283 -> "Revision Query"
      [] OTHER -> reserved_fids(service)

describe_general32_queries(service) == OkStr(smccc_general32_queries(service))

describe_general64_queries(service) == OkStr(reserved_fids(service))

decode_common_service(smccc, conv) ==
    IF conv = 0
    THEN describe(get(smccc, "Function Number", None, 0, 16), describe_general32_queries)
    ELSE describe(get(smccc, "Function Number", None, 0, 16), describe_general64_queries)

describe_arm32_service(service) ==
    CASE service = 0 -> OkStr("SMCCC_VERSION")
      [] service = 1 -> OkStr("SMCCC_ARCH_FEATURES")
      [] service = 2 -> OkStr("SMCCC_ARCH_SOC_ID")
      [] service = 16383 -> OkStr("SMCCC_ARCH_WORKAROUND_3")
      [] service = 32767 -> OkStr("SMCCC_ARCH_WORKAROUND_2")
      [] service = 32768 -> OkStr("SMCCC_ARCH_WORKAROUND_1")
      [] service = 65280 -> OkStr("Call Count Query, deprecated from SMCCCv1.2")
      [] service = 65281 -> OkStr("Call UUID Query, deprecated from SMCCCv1.2")
      [] service = 65283 -> OkStr("Revision Query, deprecated from SMCCCv1.2")
      [] OTHER -> OkStr(reserved_fids(service))

describe_arm64_service(service) == OkStr(reserved_fids(service))

decode_arm_service(smccc, conv) ==
    IF conv = 0
    THEN describe(get(smccc, "Function Number", None, 0, 16), describe_arm32_service)
    ELSE describe(get(smccc, "Function Number", None, 0, 16), describe_arm64_service)

describe_hyp64_service(service) ==
    IF service >= 32 /\ service <= 63 THEN OkStr("PV Time 64-bit calls") ELSE OkStr("")

decode_hyp_service(smccc, conv) ==
    IF conv = 0
    THEN describe(get(smccc, "Function Number", None, 0, 16), describe_general32_queries)
    ELSE describe(get(smccc, "Function Number", None, 0, 16), describe_hyp64_service)

secure_service(service) ==
    CASE service >= 0 /\ service <= 31 -> "PSCI Call (Power Secure Control Interface)"
      [] service >= 32 /\ service <= 63 -> "SDEI Call (Software Delegated Exception Interface)"
      [] service >= 64 /\ service <= 79 -> "MM Call (Management Mode)"
      [] service >= 80 /\ service <= 95 -> "TRNG Call"
      [] service >= 96 /\ service <= 239 -> "Unknown FF-A Call"
      [] service >= 240 /\ service <= 271 -> "Errata Call"
      [] service >= 336 /\ service <= 463 -> "CCA Call"
      [] OTHER -> ""

\* describe_secure32_service preferring the range label to the FF-A name.
describe_secure32_service_range_first(service) ==
    IF service >= 0 /\ service <= 463
    THEN OkStr(secure_service(service))
    ELSE IF ffa_32_function_id(service) # None
         THEN OkStr(ffa_32_function_id(service)[1])
         ELSE OkStr(smccc_general32_queries(service))

describe_secure32_service(service) ==
    IF ffa_32_function_id(service) # None
    THEN OkStr(ffa_32_function_id(service)[1])
    ELSE IF service >= 0 /\ service <= 463
         THEN OkStr(secure_service(service))
         ELSE OkStr(smccc_general32_queries(service))

describe_secure64_service(service) ==
    IF ffa_64_function_id(service) # None
    THEN OkStr(ffa_64_function_id(service)[1])
    ELSE OkStr(secure_service(service))

decode_secure_service(smccc, conv) ==
    IF conv = 0
    THEN describe(get(smccc, "Function Number", None, 0, 16), describe_secure32_service)
    ELSE describe(get(smccc, "Function Number", None, 0, 16), describe_secure64_service)

\* smccc/tapp.rs: the Trusted Application function numbers.
decode_tapp_service(smccc, conv) ==
    IF conv = 0
    THEN describe(get(smccc, "Function Number", None, 0, 16), describe_general32_queries)
    ELSE describe(get(smccc, "Function Number", None, 0, 16), describe_general64_queries)

describe_yield_service(service) ==
    CASE service >= 0 /\ service <= 16842751 ->
             OkStr("Reserved for existing APIs (in use by the existing Armv7 devices)")
      [] service >= 33554432 /\ service <= 536870911 -> OkStr("Trusted OS Yielding Calls")
      [] service >= 536870912 /\ service <= 2147483647 ->
             OkStr("Reserved for future expansion of Trusted OS Yielding Calls")
      [] OTHER -> OkStr("Unknown")

describe_call(call) ==
    CASE call = 0 -> OkStr("Yielding Call")
      [] call = 1 -> OkStr("Fast Call")
      [] OTHER -> OkStr("Unknown")

describe_convention(conv) ==
    CASE conv = 0 -> OkStr("SMC32/HVC32")
      [] conv = 1 -> OkStr("SMC64/HVC64")
      [] OTHER -> OkStr("Unknown")

describe_service(service) ==
    CASE service = 0 -> OkStr("Arm Architecture Call")
      [] service = 1 -> OkStr("CPU Service Call")
      [] service = 2 -> OkStr("SiP Service Call")
      [] service = 3 -> OkStr("OEM Service Call")
      [] service = 4 -> OkStr("Standard Secure Service Call")
      [] service = 5 -> OkStr("Standard Hypervisor Service Call")
      [] service = 6 -> OkStr("Vendor Specific Hypervisor Service Call")
      [] service >= 7 /\ service <= 47 -> OkStr("Reserved for future use")
      [] service >= 48 /\ service <= 49 -> OkStr("Trusted Application Call")
      [] service >= 50 /\ service <= 63 -> OkStr("Trusted OS Call")
      [] OTHER -> OkStr("Unknown")

\* parse_fastcall with the MBZ bits checked like a RES0 field.
parse_fastcall_checking_mbz(smccc) ==
    LET call_convention == describe(get(smccc, "Call Convention", None, 30, 31),
                                    describe_convention)
        service_call == describe(get(smccc, "Service Call", None, 24, 30), describe_service)
        mbz == check_res0(get(smccc, "MBZ", Some("Some legacy Armv7 set this to 1"), 17, 24))
        sve == get(smccc, "SVE live state",
                   Some("No live state[1] From SMCCCv1.3, before SMCCCv1.3 MBZ"), 16, 17)
        function_number ==
            CASE service_call.field.value = 0 ->
                     decode_arm_service(smccc, call_convention.field.value)
              [] service_call.field.value = 4 ->
                     decode_secure_service(smccc, call_convention.field.value)
              [] service_call.field.value = 5 ->
                     decode_hyp_service(smccc, call_convention.field.value)
              [] service_call.field.value >= 48 /\ service_call.field.value <= 49 ->
                     decode_tapp_service(smccc, call_convention.field.value)
              [] OTHER -> decode_common_service(smccc, call_convention.field.value)
    IN Try(<<call_convention, service_call, mbz, function_number>>,
           Ok(<<call_convention.field, service_call.field, mbz.field, sve,
                function_number.field>>))

\* parse_fastcall without the arm for the standard hypervisor service.
parse_fastcall_without_hyp(smccc) ==
    LET call_convention == describe(get(smccc, "Call Convention", None, 30, 31),
                                    describe_convention)
        service_call == describe(get(smccc, "Service Call", None, 24, 30), describe_service)
        mbz == get(smccc, "MBZ", Some("Some legacy Armv7 set this to 1"), 17, 24)
        sve == get(smccc, "SVE live state",
                   Some("No live state[1] From SMCCCv1.3, before SMCCCv1.3 MBZ"), 16, 17)
        function_number ==
            CASE service_call.field.value = 0 ->
                     decode_arm_service(smccc, call_convention.field.value)
              [] service_call.field.value = 4 ->
                     decode_secure_service(smccc, call_convention.field.value)
              [] service_call.field.value >= 48 /\ service_call.field.value <= 49 ->
                     decode_tapp_service(smccc, call_convention.field.value)
              [] OTHER -> decode_common_service(smccc, call_convention.field.value)
    IN Try(<<call_convention, service_call, function_number>>,
           Ok(<<call_convention.field, service_call.field, mbz, sve,
                function_number.field>>))

parse_fastcall(smccc) ==
    LET call_convention == describe(get(smccc, "Call Convention", None, 30, 31),
                                    describe_convention)
        service_call == describe(get(smccc, "Service Call", None, 24, 30), describe_service)
        mbz == get(smccc, "MBZ", Some("Some legacy Armv7 set this to 1"), 17, 24)
        sve == get(smccc, "SVE live state",
                   Some("No live state[1] From SMCCCv1.3, before SMCCCv1.3 MBZ"), 16, 17)
        function_number ==
            CASE service_call.field.value = 0 ->
                     decode_arm_service(smccc, call_convention.field.value)
              [] service_call.field.value = 4 ->
                     decode_secure_service(smccc, call_convention.field.value)
              [] service_call.field.value = 5 ->
                     decode_hyp_service(smccc, call_convention.field.value)
              [] service_call.field.value >= 48 /\ service_call.field.value <= 49 ->
                     decode_tapp_service(smccc, call_convention.field.value)
              [] OTHER -> decode_common_service(smccc, call_convention.field.value)
    IN Try(<<call_convention, service_call, function_number>>,
           Ok(<<call_convention.field, service_call.field, mbz, sve,
                function_number.field>>))

parse_yieldcall(smccc) ==
    LET yield_type == describe(get(smccc, "Service Type", None, 0, 31),
                               describe_yield_service)
    IN Try(<<yield_type>>, Ok(<<yield_type.field>>))

\* decode_smccc with bits [32,64) checked as RES0, the way decode_midr does.
decode_smccc_checking_high(smccc) ==
    LET res0 == check_res0(get(smccc, "RES0", Some("Reserved"), 32, 64))
        call_type == describe(get(smccc, "Call Type", None, 31, 32), describe_call)
        parsed == IF call_type.field.value = 1 THEN parse_fastcall(smccc)
                  ELSE parse_yieldcall(smccc)
    IN IF ~res0.ok THEN Err(res0.error)
       ELSE IF ~call_type.ok THEN Err(call_type.error)
       ELSE IF ~parsed.ok THEN Err(parsed.error)
       ELSE Ok(<<call_type.field>> \o parsed.fields)

decode_smccc(smccc) ==
    LET call_type == describe(get(smccc, "Call Type", None, 31, 32), describe_call)
        parsed == IF call_type.field.value = 1 THEN parse_fastcall(smccc)
                  ELSE parse_yieldcall(smccc)
    IN IF ~call_type.ok THEN Err(call_type.error)
       ELSE IF ~parsed.ok THEN Err(parsed.error)
       ELSE Ok(<<call_type.field>> \o parsed.fields)

(***************************************************************************)
(* The inputs explored.  A register is assembled from its top-level bit    *)
(* ranges; the decoder extracts them again with its own positions.         *)
(***************************************************************************)
\* How many single bits are probed from each end of a sampled bit range.
MaxProbe == 1

Bit(n, i) == (n \div (2^i)) % 2

MkEsr(res0, iss2, ec, il, iss) ==
    [i \in BitIndex |->
        IF i < 25 THEN Bit(iss, i)
        ELSE IF i = 25 THEN il
        ELSE IF i < 32 THEN Bit(ec, i - 26)
        ELSE IF i < 37 THEN Bit(iss2, i - 32)
        ELSE Bit(res0, i - 37)]

MkMidr(res0, implementer, variant, architecture, part_num, revision) ==
    [i \in BitIndex |->
        IF i < 4 THEN Bit(revision, i)
        ELSE IF i < 16 THEN Bit(part_num, i - 4)
        ELSE IF i < 20 THEN Bit(architecture, i - 16)
        ELSE IF i < 24 THEN Bit(variant, i - 20)
        ELSE IF i < 32 THEN Bit(implementer, i - 24)
        ELSE IF i < 63 THEN Bit(res0, i - 32)
        ELSE 0]

\* A function ID: bits [32,63), bit 31 and bits [0,31).
MkSmccc(high, call, low) ==
    [i \in BitIndex |->
        IF i < 31 THEN Bit(low, i)
        ELSE IF i = 31 THEN call
        ELSE IF i < 63 THEN Bit(high, i - 32)
        ELSE 0]

\* Bits [0,31) of a Fast Call.
FastCall(conv, service, mbz, sve, function) ==
    conv * 2^30 + service * 2^24 + mbz * 2^17 + sve * 2^16 + function

\* Sample values of a bit range of the given width: zero, all ones, and the
\* MaxProbe lowest and MaxProbe highest single bits.
Probes(width) ==
    {0, (2^(width - 1) - 1) + 2^(width - 1)}
        \cup {2^k : k \in {j \in 0..(MaxProbe - 1) : j < width}}
        \cup {2^(width - 1 - k) : k \in {j \in 0..(MaxProbe - 1) : j < width}}

\* Every single bit of a bit range, zero and all ones.
SingleBits(width) == {0, (2^(width - 1) - 1) + 2^(width - 1)} \cup {2^k : k \in 0..(width - 1)}

\* ISS values tried with every Exception Class: the probes of the whole
\* range, and the ISS of each syndrome of the repository's tests
\* (0x96000050, 0x97523050, 0x82001e10, 0x1f300000, 0x2a000002) and of a
\* debug exception (IFSC 0b100010).
IssSamples == Probes(25) \cup {80, 22163536, 7696, 19922944, 2, 34, 16777250}

\* ISS values laid out as an Instruction Abort or Data Abort syndrome:
\* bit 24, bits [14,24), bit 13, bits [11,13), bits [6,11), bits [0,6).
AbortIss ==
    {b24 * 2^24 + hi * 2^14 + b13 * 2^13 + set * 2^11 + mid * 2^6 + fsc :
        b24 \in 0..1, hi \in Probes(10), b13 \in 0..1, set \in 0..3,
        mid \in SingleBits(5), fsc \in 0..63}

\* Instruction Abort from a lower Exception level; Data Abort taken without
\* a change in Exception level.
AbortEcs == {32, 37}

\* The inputs that probe the top-level ranges with every Exception Class.
TopInput(e) ==
    \E res0 \in Probes(27), iss2 \in Probes(5), ec \in 0..63, il \in 0..1,
       iss \in IssSamples :
        e = MkEsr(res0, iss2, ec, il, iss)

\* The inputs that probe the abort syndromes.
AbortInput(e) ==
    \E ec \in AbortEcs, iss \in AbortIss : e = MkEsr(0, 0, ec, 1, iss)

\* ISS values laid out as an MSR/MRS syndrome: bits [22,25), Op0, Op2, Op1,
\* CRn, Rt, CRm, Direction.
MsrIss(res0, op0, op2, op1, crn, rt, crm, direction) ==
    res0 * 2^22 + op0 * 2^20 + op2 * 2^17 + op1 * 2^14 + crn * 2^10 + rt * 2^5
        + crm * 2 + direction

\* The inputs that probe the MSR/MRS syndromes: every (Op1, Op2, CRn, CRm)
\* with Op0 = 3, samples with the other Op0 values, and every Rt and every
\* value of bits [22,25) with ACTLR_EL1 and an unnamed register.
MsrInput(e) ==
    \/ \E op2 \in 0..7, op1 \in 0..7, crn \in 0..15, crm \in 0..15, direction \in 0..1 :
           e = MkEsr(0, 0, 24, 1, MsrIss(0, 3, op2, op1, crn, 18, crm, direction))
    \/ \E op0 \in 0..2, op2 \in 0..7, op1 \in 0..7, crn \in {0, 1, 5, 15},
          crm \in {0, 1, 15} :
           e = MkEsr(0, 0, 24, 1, MsrIss(0, op0, op2, op1, crn, 3, crm, 0))
    \/ \E res0 \in 0..7, op2 \in {1, 3}, rt \in 0..31, direction \in 0..1 :
           e = MkEsr(0, 0, 24, 1, MsrIss(res0, 3, op2, 0, 1, rt, 0, direction))

\* ISS values laid out as an SError syndrome: IDS, bits [14,24), bit 13, AET,
\* EA, bits [6,9), DFSC.
SErrorIss(ids, hi, b13, aet, ea, mid, dfsc) ==
    ids * 2^24 + hi * 2^14 + b13 * 2^13 + aet * 2^10 + ea * 2^9 + mid * 2^6 + dfsc

\* The inputs that probe the SError syndromes: every AET and DFSC with the
\* reserved ranges zero, and the reserved ranges with a few AET and DFSC.
SErrorInput(e) ==
    \/ \E ids \in 0..1, b13 \in 0..1, aet \in 0..7, ea \in 0..1, dfsc \in 0..63 :
           e = MkEsr(0, 0, 47, 1, SErrorIss(ids, 0, b13, aet, ea, 0, dfsc))
    \/ \E ids \in 0..1, hi \in Probes(10), b13 \in 0..1, aet \in {0, 3, 6},
          mid \in {0, 1, 4, 7}, dfsc \in {0, 17, 16} :
           e = MkEsr(0, 0, 47, 1, SErrorIss(ids, hi, b13, aet, 0, mid, dfsc))

\* The inputs that probe the Software Step syndromes: ISV, bits [7,24),
\* bit 6 and every IFSC.
SoftwareStepInput(e) ==
    \E ec \in {50, 51}, isv \in 0..1, hi \in Probes(17), b6 \in 0..1, ifsc \in 0..63 :
        e = MkEsr(0, 0, ec, 1, isv * 2^24 + hi * 2^7 + b6 * 2^6 + ifsc)

\* The classes whose ISS is entirely reserved, and LD64B/ST64B.
WholeIssEcs == {0, 14, 25, 34, 38, 10}

\* The inputs that probe the classes decoding the ISS as one field: the
\* smallest ISS values and every single bit.
WholeIssInput(e) ==
    \E ec \in WholeIssEcs, il \in 0..1, iss \in 0..7 \cup SingleBits(25) :
        e = MkEsr(0, 0, ec, il, iss)

\* The inputs that probe the WF* syndromes: CV, COND, bits [10,20), RN,
\* bits [3,5), RV and every TI.
WfInput(e) ==
    \E cv \in 0..1, cond \in {0, 14}, res0a \in {0, 1}, rn \in {0, 31}, res0b \in {0, 2},
       rv \in 0..1, ti \in 0..3 :
        e = MkEsr(0, 0, 1, 1, cv * 2^24 + cond * 2^20 + res0a * 2^10 + rn * 2^5
                                  + res0b * 2^3 + rv * 2^2 + ti)

\* The inputs that probe the Breakpoint and Vector Catch syndromes (bits
\* [6,25) and every IFSC) and the Watchpoint syndromes (one reserved bit at
\* a time, VNCR, CM, WnR and every DFSC).
DebugInput(e) ==
    \/ \E ec \in {48, 49}, hi \in Probes(19), fsc \in 0..63 :
           e = MkEsr(0, 0, ec, 1, hi * 2^6 + fsc)
    \/ \E ec \in {52, 53}, reserved \in {0, 2^15, 2^14, 2^9, 2^7}, vncr \in 0..1,
          cm \in 0..1, wnr \in 0..1, fsc \in 0..63 :
           e = MkEsr(0, 0, ec, 1, reserved + vncr * 2^13 + cm * 2^8 + wnr * 2^6 + fsc)

\* The implementer codes of describe_implementer and some outside it.
ImplementerSamples ==
    {0, 192, 65, 66, 67, 68, 70, 73, 77, 78, 80, 81, 86, 105} \cup Probes(8)

MidrInput(m) ==
    \E res0 \in Probes(31), implementer \in ImplementerSamples, variant \in {0, 15},
       architecture \in 0..15, part_num \in Probes(12), revision \in {0, 15} :
        m = MkMidr(res0, implementer, variant, architecture, part_num, revision)

\* Function numbers at the edges of every range the describers match.
FunctionSamples ==
    {0, 1, 2, 31, 32, 63, 64, 79, 80, 95, 239, 240, 271, 272, 335, 336, 463, 464,
     16383, 32767, 32768, 65279, 65280, 65281, 65282, 65283, 65535}
        \cup 96..240

\* Service Type values at the edges of the ranges of describe_yield_service.
YieldSamples ==
    {0, 16842751, 16842752, 33554431, 33554432, 536870911, 536870912, 2147483647}

SmcccInput(s) ==
    \/ \E high \in Probes(31), low \in YieldSamples : s = MkSmccc(high, 0, low)
    \/ \E high \in {0, 1}, conv \in 0..1, service \in 0..63, mbz \in Probes(7),
          sve \in 0..1, function \in {0, 32, 96, 65280} :
           s = MkSmccc(high, 1, FastCall(conv, service, mbz, sve, function))
    \/ \E conv \in 0..1, service \in {0, 1, 4, 5, 48, 49}, function \in FunctionSamples :
           s = MkSmccc(0, 1, FastCall(conv, service, 0, 0, function))

(***************************************************************************)
(* The state machine: calls of one of the three decoders on an input.       *)
(***************************************************************************)
NotCalled == Err(NoError)

Init ==
    /\ \/ op = "decode" /\ (\/ TopInput(input)
                               \/ AbortInput(input)
                               \/ MsrInput(input)
                               \/ SErrorInput(input)
                               \/ SoftwareStepInput(input)
                               \/ WholeIssInput(input)
                               \/ WfInput(input)
                               \/ DebugInput(input))
       \/ op = "decode_midr" /\ MidrInput(input)
       \/ op = "decode_smccc" /\ SmcccInput(input)
    /\ pc = "call"
    /\ result = NotCalled

\* One call of a decoder on the input: each takes the u64 by value, reads
\* nothing else and returns the Result.
DecodeEsr ==
    /\ pc = "call"
    /\ op = "decode"
    /\ result' = decode(input)
    /\ pc' = "done"
    /\ UNCHANGED <<op, input>>

DecodeMidr ==
    /\ pc = "call"
    /\ op = "decode_midr"
    /\ result' = decode_midr(input)
    /\ pc' = "done"
    /\ UNCHANGED <<op, input>>

DecodeSmccc ==
    /\ pc = "call"
    /\ op = "decode_smccc"
    /\ result' = decode_smccc(input)
    /\ pc' = "done"
    /\ UNCHANGED <<op, input>>

Next == DecodeEsr \/ DecodeMidr \/ DecodeSmccc

Spec == Init /\ [][Next]_vars


(***************************************************************************)
(* The field combinators of FieldInfo applied on their own: one call of    *)
(* check_res0, with_description, describe_bit or describe on a field that  *)
(* get has built.  input holds the field and the description or the name   *)
(* of the describer passed with it.                                        *)
(***************************************************************************)
\* Bit ranges the decoders pass to get, with the names they give them.
FieldRanges ==
    {<<"RES0", 37, 64>>, <<"EC", 26, 32>>, <<"ISS", 0, 25>>, <<"DFSC", 0, 6>>,
     <<"SET", 11, 13>>, <<"AET", 10, 13>>, <<"RES0", 14, 24>>}

\* The bits the decoders pass to get_bit.
FieldBits == {<<"IL", 25>>, <<"ISV", 24>>, <<"WnR", 6>>, <<"RES0", 8>>}

\* Describers of a value, by name.
ApplyDescriber(describer, value) ==
    CASE describer = "describe_fsc" -> describe_fsc(value)
      [] describer = "describe_set" -> describe_set(value)
      [] describer = "describe_aet" -> describe_aet(value)
      [] describer = "describe_iss_ld64b" -> describe_iss_ld64b(value)

\* Describers of a bit, by name.
ApplyBitDescriber(describer, bit) ==
    CASE describer = "describe_il" -> describe_il(bit)
      [] describer = "describe_isv" -> describe_isv(bit)
      [] describer = "describe_wnr" -> describe_wnr(bit)

FieldInit ==
    /\ pc = "call"
    /\ result = NotCalled
    /\ \/ /\ op \in {"check_res0", "with_description", "describe"}
          /\ \E res0 \in Probes(27), ec \in {0, 37, 63}, iss \in IssSamples,
                range \in FieldRanges, long_name \in {None, Some("Reserved")} :
                 LET self == get(MkEsr(res0, 0, ec, 1, iss), range[1], long_name,
                                 range[2], range[3])
                 IN \/ op = "check_res0" /\ input = [self |-> self, arg |-> ""]
                    \/ /\ op = "with_description"
                       /\ \E description \in {"ISS is RES0", ""} :
                              input = [self |-> self, arg |-> description]
                    \/ /\ op = "describe"
                       /\ \E describer \in {"describe_fsc", "describe_set", "describe_aet",
                                            "describe_iss_ld64b"} :
                              input = [self |-> self, arg |-> describer]
       \/ /\ op = "describe_bit"
          /\ \E il \in 0..1, iss \in IssSamples, bit \in FieldBits,
                describer \in {"describe_il", "describe_isv", "describe_wnr"} :
                 input = [self |-> get_bit(MkEsr(0, 0, 37, il, iss), bit[1],
                                           Some("Reserved"), bit[2]),
                          arg |-> describer]

ApplyCheckRes0 ==
    /\ pc = "call"
    /\ op = "check_res0"
    /\ result' = check_res0(input.self)
    /\ pc' = "done"
    /\ UNCHANGED <<op, input>>

ApplyWithDescription ==
    /\ pc = "call"
    /\ op = "with_description"
    /\ result' = OkField(with_description(input.self, input.arg))
    /\ pc' = "done"
    /\ UNCHANGED <<op, input>>

ApplyDescribeBit ==
    /\ pc = "call"
    /\ op = "describe_bit"
    /\ result' = describe_bit(input.self, LAMBDA bit : ApplyBitDescriber(input.arg, bit))
    /\ pc' = "done"
    /\ UNCHANGED <<op, input>>

ApplyDescribe ==
    /\ pc = "call"
    /\ op = "describe"
    /\ result' = describe(input.self, LAMBDA value : ApplyDescriber(input.arg, value))
    /\ pc' = "done"
    /\ UNCHANGED <<op, input>>

FieldNext == ApplyCheckRes0 \/ ApplyWithDescription \/ ApplyDescribeBit \/ ApplyDescribe

FieldSpec == FieldInit /\ [][FieldNext]_vars


(***************************************************************************)
(* The register description generator's conversion of a JSON field entry   *)
(* into a RegisterField (src/generate-sysregs/src/json_input.rs).  A call  *)
(* either returns an Option<RegisterField> or panics (unwrap of a missing  *)
(* name, division by a zero array width, todo!()).                         *)
(***************************************************************************)
Returned(value) == [panicked |-> FALSE, value |-> value]

Panicked == [panicked |-> TRUE, value |-> None]

\* struct Range { start, width }.
Range(start, width) == [start |-> start, width |-> width]

\* The variants of FieldEntry, as records tagged with the variant.  name is
\* an Option<String>; fields holds the options of a ConditionalField.
FieldEntry(type, name, rangeset, indexes, index_variable, fields) ==
    [type |-> type, name |-> name, rangeset |-> rangeset, indexes |-> indexes,
     index_variable |-> index_variable, fields |-> fields]

\* struct RegisterField; description is always None here.
RegisterField(name, index, width, writable, array_info) ==
    [name |-> name, description |-> None, index |-> index, width |-> width,
     writable |-> writable, array_info |-> array_info]

\* struct ArrayInfo { indices: start..end, index_variable }.
ArrayInfo(start, end, index_variable) ==
    [indices |-> <<start, end>>, index_variable |-> index_variable]

from_field(field, offset) ==
    IF Len(field.rangeset) = 1
    THEN IF field.name = None THEN Panicked
         ELSE Returned(Some(RegisterField(field.name[1],
                                          offset + field.rangeset[1].start,
                                          field.rangeset[1].width, TRUE, None)))
    ELSE Returned(None)

from_array_field(field, offset) ==
    IF Len(field.rangeset) = 1
    THEN IF Len(field.indexes) = 1
         THEN IF field.name = None \/ field.indexes[1].width = 0 THEN Panicked
              ELSE Returned(Some(RegisterField(
                       field.name[1],
                       offset + field.rangeset[1].start,
                       field.rangeset[1].width \div field.indexes[1].width,
                       TRUE,
                       Some(ArrayInfo(field.indexes[1].start,
                                      field.indexes[1].start + field.indexes[1].width,
                                      field.index_variable)))))
         ELSE Returned(None)
    ELSE Returned(None)

from_constant_field(field, offset) ==
    IF Len(field.rangeset) = 1
    THEN IF field.name = None THEN Panicked
         ELSE Returned(Some(RegisterField(field.name[1],
                                          offset + field.rangeset[1].start,
                                          field.rangeset[1].width, FALSE, None)))
    ELSE Returned(None)

RECURSIVE from_field_entry(_, _)
RECURSIVE conditional_options(_, _, _, _)
RECURSIVE from_conditional_field(_, _)

from_field_entry(field_entry, offset) ==
    CASE field_entry.type = "Field" -> from_field(field_entry, offset)
      [] field_entry.type = "Reserved" -> Returned(None)
      [] field_entry.type = "ImplementationDefined" -> Returned(None)
      [] field_entry.type = "ConditionalField" -> from_conditional_field(field_entry, offset)
      [] field_entry.type = "Array" -> from_array_field(field_entry, offset)
      [] field_entry.type = "ConstantField" -> from_constant_field(field_entry, offset)
      [] OTHER -> Panicked

\* The loop of from_conditional_field from option i on, bit being the value
\* kept so far: an option is converted and stored while bit is None, and
\* compared with bit once bit is Some.
conditional_options(fields, i, bit, offset) ==
    IF i > Len(fields) THEN Returned(bit)
    ELSE LET converted == from_field_entry(fields[i], offset)
         IN IF converted.panicked THEN Panicked
            ELSE IF bit = None
            THEN conditional_options(fields, i + 1, converted.value, offset)
            ELSE IF converted.value # bit THEN Returned(None)
            ELSE conditional_options(fields, i + 1, bit, offset)

from_conditional_field(field, offset) ==
    IF Len(field.rangeset) = 1
    THEN conditional_options(field.fields, 1, None, offset + field.rangeset[1].start)
    ELSE Returned(None)

(***************************************************************************)
(* Calls of from_conditional_field on conditional fields with up to        *)
(* MaxOptions options, drawn from entries of every variant and from        *)
(* nested conditional fields.  input holds the field and the offset.       *)
(***************************************************************************)
\* How many options a conditional field has at most.
MaxOptions == 3

LeafEntries ==
    { FieldEntry("Field", Some("A"), <<Range(0, 1)>>, <<>>, "", <<>>),
      FieldEntry("Field", Some("B"), <<Range(0, 1)>>, <<>>, "", <<>>),
      FieldEntry("Field", Some("A"), <<Range(0, 1), Range(4, 2)>>, <<>>, "", <<>>),
      FieldEntry("Field", None, <<Range(0, 1)>>, <<>>, "", <<>>),
      FieldEntry("Reserved", None, <<Range(0, 1)>>, <<>>, "", <<>>),
      FieldEntry("ImplementationDefined", None, <<Range(0, 1)>>, <<>>, "", <<>>),
      FieldEntry("ConstantField", Some("A"), <<Range(0, 1)>>, <<>>, "", <<>>),
      FieldEntry("Array", Some("A"), <<Range(0, 4)>>, <<Range(0, 2)>>, "n", <<>>),
      FieldEntry("Dynamic", None, <<>>, <<>>, "", <<>>) }

NestedEntries ==
    { FieldEntry("ConditionalField", None, <<Range(0, 1)>>, <<>>, "", options) :
        options \in { <<a, b>> : a, b \in { e \in LeafEntries :
                                              /\ e.type \in {"Field", "Reserved"}
                                              /\ Len(e.rangeset) = 1
                                              /\ e.name \in {None, Some("A")}
                                              /\ e.type = "Field" => e.name # None } } }

OptionEntries == LeafEntries \cup NestedEntries

Rangesets == {<<Range(0, 1)>>, <<Range(4, 2)>>, <<Range(0, 1), Range(4, 2)>>}

SysregsInit ==
    /\ op = "from_conditional_field"
    /\ \E rangeset \in Rangesets, offset \in {0, 32}, n \in 0..MaxOptions :
           \E options \in [1..n -> OptionEntries] :
               input = [field |-> FieldEntry("ConditionalField", Some("C"), rangeset,
                                             <<>>, "", options),
                        offset |-> offset]
    /\ pc = "call"
    /\ result = NotCalled

FromConditionalField ==
    /\ pc = "call"
    /\ op = "from_conditional_field"
    /\ result' = from_conditional_field(input.field, input.offset)
    /\ pc' = "done"
    /\ UNCHANGED <<op, input>>

SysregsNext == FromConditionalField

SysregsSpec == SysregsInit /\ [][SysregsNext]_vars


(***************************************************************************)
(* The web front end (src/aarch64-esr-web/src/lib.rs): the table that      *)
(* show_decoded builds from a register value and its decoded fields.  A    *)
(* cell is a <td> with its text, its hover title and its colspan; a row    *)
(* under construction carries `last`, the lowest bit rendered so far, and  *)
(* whether a usize subtraction underflowed, which panics when overflow     *)
(* checks are on and wraps when they are off.                              *)
(***************************************************************************)
Digit == <<"0", "1", "2", "3", "4", "5", "6", "7", "8", "9", "a", "b", "c", "d", "e", "f">>

RECURSIVE format_radix(_, _)
\* The digits of value in the radix, without padding.
format_radix(value, radix) ==
    IF value < radix THEN Digit[value + 1]
    ELSE format_radix(value \div radix, radix) \o Digit[(value % radix) + 1]

RECURSIVE pad_zero(_, _)
pad_zero(digits, width) ==
    IF Len(digits) >= width THEN digits ELSE pad_zero("0" \o digits, width)

\* {:#0Nx} and {:#0Nb}: the prefix counts towards the minimum width N.
format_hex(value, width) == "0x" \o pad_zero(format_radix(value, 16), width - 2)

format_binary(value, width) == "0b" \o pad_zero(format_radix(value, 2), width - 2)

\* impl Display for FieldInfo.
to_string(field) ==
    IF field.width = 1
    THEN field.name \o ": " \o (IF field.value = 1 THEN "true" ELSE "false")
    ELSE field.name \o ": " \o format_hex(field.value, (field.width + 3) \div 4 + 2)
             \o " " \o format_binary(field.value, field.width + 2)

make_cell(contents, hover_title, colspan) ==
    [contents |-> contents, hover_title |-> hover_title, colspan |-> colspan]

\* The closures show_decoded passes for a row of the class: names and values
\* with the long name as hover title, or descriptions without hover title.
get_contents(class, field) ==
    IF class = "name" THEN Some(to_string(field)) ELSE field.description

get_hover_title(class, field) ==
    IF class = "name" THEN field.long_name ELSE None

NewRow(class, last) == [class |-> class, cells |-> <<>>, last |-> last, underflow |-> FALSE]

RECURSIVE add_field_cells_from(_, _, _)
\* add_field_cells that never moves `last` down to the field it has rendered.
add_field_cells_keeping_last(row, fields, i) ==
    IF row.underflow \/ i > Len(fields) THEN row
    ELSE LET field == fields[i]
             filler == IF field.start + field.width # row.last
                       THEN <<make_cell(None, None, row.last - field.start - field.width)>>
                       ELSE <<>>
             cell == make_cell(get_contents(row.class, field),
                               get_hover_title(row.class, field), field.width)
         IN IF field.start + field.width > row.last
            THEN [row EXCEPT !.underflow = TRUE]
            ELSE add_field_cells_from(
                     [row EXCEPT !.cells = row.cells \o filler \o <<cell>>],
                     fields, i + 1)

\* The loop of add_field_cells from field i on.
add_field_cells_from(row, fields, i) ==
    IF row.underflow \/ i > Len(fields) THEN row
    ELSE LET field == fields[i]
             filler == IF field.start + field.width # row.last
                       THEN <<make_cell(None, None, row.last - field.start - field.width)>>
                       ELSE <<>>
             cell == make_cell(get_contents(row.class, field),
                               get_hover_title(row.class, field), field.width)
         IN IF field.start + field.width > row.last
            THEN [row EXCEPT !.underflow = TRUE]
            ELSE add_field_cells_from(
                     [row EXCEPT !.cells = row.cells \o filler \o <<cell>>,
                                 !.last = field.start],
                     fields, i + 1)

add_field_cells(row, fields) == add_field_cells_from(row, fields, 1)

RECURSIVE add_subfield_cells(_, _, _)
\* for field in &fields { add_field_cells(.., &field.subfields, &mut last, ..) }
add_subfield_cells(row, fields, i) ==
    IF i > Len(fields) THEN row
    ELSE add_subfield_cells(add_field_cells(row, fields[i].subfields), fields, i + 1)

\* The row of hexadecimal digits: the lowest (nr_bit + 3) / 4 of sixteen.
hex_row(esr, nr_bit) ==
    LET nr_nib == (nr_bit + 3) \div 4
    IN [k \in 1..nr_nib |->
           make_cell(Some(Digit[get_bits(esr, 4 * (nr_nib - k), 4 * (nr_nib - k) + 4) + 1]),
                     None, 4)]

\* The row of bits, from bit nr_bit - 1 down to bit 0.
binary_row(esr, nr_bit) ==
    [k \in 1..nr_bit |->
        make_cell(Some(IF esr[nr_bit - k] = 1 THEN "1" ELSE "0"), None, 1)]

\* The page after show_decoded: the table, and the error element, which is
\* empty or displays a DecodeError.  error_text is the fixed message that
\* show_error puts into the same element.
show_decoded(esr, decoded, nr_bit) ==
    LET values == << [class |-> "value", cells |-> hex_row(esr, nr_bit),
                      last |-> nr_bit, underflow |-> FALSE],
                     [class |-> "value", cells |-> binary_row(esr, nr_bit),
                      last |-> nr_bit, underflow |-> FALSE] >>
    IN IF decoded.ok
       THEN [error_text |-> None,
             error |-> None,
             table |-> values \o
                 << add_field_cells(NewRow("name", nr_bit), decoded.fields),
                    add_field_cells(NewRow("description", nr_bit), decoded.fields),
                    add_subfield_cells(NewRow("name", nr_bit), decoded.fields, 1),
                    add_subfield_cells(NewRow("description", nr_bit), decoded.fields, 1) >>]
       ELSE [error_text |-> None, error |-> Some(decoded.error), table |-> values]

\* show_error: the table is emptied and the error element gets the message.
show_error(error) == [error_text |-> Some(error), error |-> None, table |-> <<>>]

(***************************************************************************)
(* parse_number: a string starting "0x" is parsed as hexadecimal, any      *)
(* other as decimal, into a u64, with the checked arithmetic of            *)
(* u64::from_str_radix: an empty string, a character that is no digit of   *)
(* the radix and a value above u64::MAX are errors.                        *)
(***************************************************************************)
ParseOk(value) == [ok |-> TRUE, value |-> value, error |-> "None"]

ParseErr(kind) == [ok |-> FALSE, value |-> ToU64(0), error |-> kind]

UpperDigit == <<"A", "B", "C", "D", "E", "F">>

\* char::to_digit: the value of the character in the radix, if it has one.
to_digit(c, radix) ==
    LET lower == {d \in 1..16 : Digit[d] = c}
        upper == {d \in 1..6 : UpperDigit[d] = c}
        value == IF lower # {} THEN (CHOOSE d \in lower : TRUE) - 1
                 ELSE IF upper # {} THEN (CHOOSE d \in upper : TRUE) + 9
                 ELSE -1
    IN IF value >= 0 /\ value < radix THEN Some(value) ELSE None

\* acc * radix + digit on a u64 held as four 16-bit limbs, least significant
\* first: the limbs of the result and whether it passed u64::MAX, which is
\* when checked_mul or checked_add returns None.
mul_add(acc, radix, digit) ==
    LET t0 == acc[1] * radix + digit
        t1 == acc[2] * radix + t0 \div 65536
        t2 == acc[3] * radix + t1 \div 65536
        t3 == acc[4] * radix + t2 \div 65536
    IN [overflow |-> t3 >= 65536,
        value |-> <<t0 % 65536, t1 % 65536, t2 % 65536, t3 % 65536>>]

RECURSIVE parse_digits(_, _, _, _)
\* The loop of from_str_radix from character i on.
parse_digits(digits, i, radix, acc) ==
    IF i > Len(digits) THEN ParseOk(U64(acc[4], acc[3], acc[2], acc[1]))
    ELSE LET digit == to_digit(SubSeq(digits, i, i), radix)
             next == mul_add(acc, radix, digit[1])
         IN IF digit = None THEN ParseErr("InvalidDigit")
            ELSE IF next.overflow THEN ParseErr("PosOverflow")
            ELSE parse_digits(digits, i + 1, radix, next.value)

\* u64::from_str_radix: one leading "+" is allowed, a sign alone is not.
from_str_radix(src, radix) ==
    IF src = "" THEN ParseErr("Empty")
    ELSE IF src = "+" \/ src = "-" THEN ParseErr("InvalidDigit")
    ELSE IF SubSeq(src, 1, 1) = "+"
    THEN parse_digits(SubSeq(src, 2, Len(src)), 1, radix, <<0, 0, 0, 0>>)
    ELSE parse_digits(src, 1, radix, <<0, 0, 0, 0>>)

parse_number(s) ==
    IF Len(s) >= 2 /\ SubSeq(s, 1, 2) = "0x"
    THEN from_str_radix(SubSeq(s, 3, Len(s)), 16)
    ELSE from_str_radix(s, 10)

(***************************************************************************)
(* The three entry points of the front end.  input is the text typed: the  *)
(* registers explored with the decoders, written in hexadecimal, and       *)
(* strings that are decimal, malformed or too large.                       *)
(***************************************************************************)
RECURSIVE HexDigits(_, _)
\* The hexadecimal digits of the register from the given nibble down.
HexDigits(register, nibble) ==
    LET digit == Digit[get_bits(register, 4 * nibble, 4 * nibble + 4) + 1]
    IN IF nibble = 0 THEN digit ELSE digit \o HexDigits(register, nibble - 1)

\* The register written as "0x" and its digits without leading zeros.
HexText(register) ==
    LET used == {n \in 0..15 : get_bits(register, 4 * n, 4 * n + 4) # 0}
        top == IF used = {} THEN 0 ELSE CHOOSE n \in used : \A m \in used : m <= n
    IN "0x" \o HexDigits(register, top)

OtherTexts ==
    {"", "0x", "+", "-1", " 5", "xyz", "123abc", "0X10", "0xg", "12345", "+7", "0x123abc",
     "0x0000000000000000096000050", "0x10000000000000000",
     "9223372036854775807", "18446744073709551616", "2516582480"}

\* u64::MAX, typed where no field wider than 31 bits is read from it.
MaxText == "18446744073709551615"

\* The ESRs typed: every Exception Class with the sampled syndromes, and
\* for the classes with a layout of their own, syndromes varying the fields
\* that select the layout.
WebEsrText(text) ==
    \/ \E res0 \in {0, 1}, iss2 \in {0, 31}, ec \in 0..63, il \in 0..1, iss \in IssSamples :
           text = HexText(MkEsr(res0, iss2, ec, il, iss))
    \/ \E ec \in AbortEcs, b24 \in 0..1, b13 \in 0..1, set \in 0..3, fsc \in 0..63 :
           text = HexText(MkEsr(0, 0, ec, 1, b24 * 2^24 + b13 * 2^13 + set * 2^11 + fsc))
    \/ \E res0 \in 0..1, op2 \in {1, 3}, rt \in 0..31, direction \in 0..1 :
           text = HexText(MkEsr(0, 0, 24, 1,
                                MsrIss(res0, 3, op2, 0, 1, rt, 0, direction)))
    \/ \E ids \in 0..1, b13 \in 0..1, aet \in 0..7, dfsc \in {0, 16, 17} :
           text = HexText(MkEsr(0, 0, 47, 1, SErrorIss(ids, 0, b13, aet, 0, 0, dfsc)))
    \/ \E ec \in {50, 51}, isv \in 0..1, b6 \in 0..1, ifsc \in {0, 34} :
           text = HexText(MkEsr(0, 0, ec, 1, isv * 2^24 + b6 * 2^6 + ifsc))
    \/ \E ec \in WholeIssEcs \cup {1, 48, 49, 52, 53},
          iss \in 0..7 \cup SingleBits(25) \cup {34} :
           text = HexText(MkEsr(0, 0, ec, 1, iss))

\* The MIDRs typed.
WebMidrText(text) ==
    \E res0 \in {0, 1}, implementer \in ImplementerSamples, variant \in {0, 15},
       architecture \in {0, 1, 15}, part_num \in Probes(12), revision \in {0, 15} :
        text = HexText(MkMidr(res0, implementer, variant, architecture, part_num, revision))

\* The SMCCC function identifiers typed.
WebSmcccText(text) ==
    \/ \E high \in {0, 1}, low \in YieldSamples : text = HexText(MkSmccc(high, 0, low))
    \/ \E high \in {0, 1}, conv \in 0..1, service \in 0..63, mbz \in {0, 127},
          sve \in 0..1, function \in {0, 65280} :
           text = HexText(MkSmccc(high, 1, FastCall(conv, service, mbz, sve, function)))
    \/ \E conv \in 0..1, service \in {0, 4, 5, 48}, function \in FunctionSamples :
           text = HexText(MkSmccc(0, 1, FastCall(conv, service, 0, 0, function)))

WebInit ==
    /\ \/ op = "web decode_esr" /\ WebEsrText(input)
       \/ op = "web decode_midr" /\ WebMidrText(input)
       \/ op = "web decode_smccc" /\ WebSmcccText(input)
       \/ op \in {"web decode_esr", "web decode_midr", "web decode_smccc"}
              /\ input \in OtherTexts
       \/ op \in {"web decode_esr", "web decode_smccc"} /\ input = MaxText
    /\ pc = "call"
    /\ result = NotCalled

WebDecodeEsr ==
    /\ pc = "call"
    /\ op = "web decode_esr"
    /\ LET esr == parse_number(input)
       IN result' = IF esr.ok THEN show_decoded(esr.value, decode(esr.value), 64)
                    ELSE show_error("Invalid ESR")
    /\ pc' = "done"
    /\ UNCHANGED <<op, input>>

WebDecodeMidr ==
    /\ pc = "call"
    /\ op = "web decode_midr"
    /\ LET midr == parse_number(input)
       IN result' = IF midr.ok THEN show_decoded(midr.value, decode_midr(midr.value), 64)
                    ELSE show_error("Invalid MIDR")
    /\ pc' = "done"
    /\ UNCHANGED <<op, input>>

WebDecodeSmccc ==
    /\ pc = "call"
    /\ op = "web decode_smccc"
    /\ LET fn_id == parse_number(input)
       IN result' = IF fn_id.ok
                    THEN show_decoded(fn_id.value, decode_smccc(fn_id.value), 32)
                    ELSE show_error("Invalid SMCCC Function ID")
    /\ pc' = "done"
    /\ UNCHANGED <<op, input>>

WebNext == WebDecodeEsr \/ WebDecodeMidr \/ WebDecodeSmccc

WebSpec == WebInit /\ [][WebNext]_vars


(***************************************************************************)
(* Properties of decode.  The bit ranges of the input are read with        *)
(* get_bits, independently of the fields the decoder returns.              *)
(***************************************************************************)
Done(o) == pc = "done" /\ op = o

EsrRes0 == get_bits(input, 37, 64)
EsrIss2 == get_bits(input, 32, 37)
EsrEc == get_bits(input, 26, 32)
EsrIl == get_bits(input, 25, 26)
EsrIss == get_bits(input, 0, 25)

\* Bits [lo, hi) of the ISS.
IssBits(lo, hi) == get_bits(input, lo, hi)

\* The Exception Class values with an arm in decode's match.
RecognizedEc ==
    {0, 1} \cup 3..7 \cup {10} \cup 12..14 \cup {17} \cup 21..25 \cup {28}
        \cup 32..34 \cup 36..38 \cup {40, 44, 47} \cup 48..53 \cup {56, 60}

\* The errors an ISS decoder can return.
IssErrorKinds ==
    {"InvalidRes0", "InvalidFsc", "InvalidSet", "InvalidAet", "InvalidAm",
     "InvalidLd64bIss"}

\* C1: an ESR whose bits [37,64) are not all zero fails with
\* InvalidRes0{res0 = esr >> 37}, whatever its EC, IL, ISS2 and ISS bits are.
C1_Res0TakesPrecedence ==
    (Done("decode") /\ EsrRes0 # 0) => result = Err(InvalidRes0(EsrRes0))

\* C1 witness: bit 63 set together with an unrecognized EC and a nonzero ISS.
C1_Witness ==
    /\ Done("decode")
    /\ EsrRes0 = 2^26
    /\ EsrEc \notin RecognizedEc
    /\ EsrIss # 0
    /\ result = Err(InvalidRes0(2^26))

\* C2: with bits [37,64) zero, decode fails with InvalidEc{ec = bits [26,32)}
\* if and only if the EC has no arm in the dispatch.
C2_InvalidEcIffUnrecognized ==
    (Done("decode") /\ EsrRes0 = 0) =>
        /\ (result.error.kind = "InvalidEc") <=> (EsrEc \notin RecognizedEc)
        /\ (EsrEc \notin RecognizedEc) => result = Err(InvalidEc(EsrEc))

\* C2 witness: the unrecognized EC 0b111111 with a nonzero ISS, IL and ISS2.
C2_Witness ==
    /\ Done("decode")
    /\ EsrRes0 = 0 /\ EsrEc = 63 /\ EsrIss # 0 /\ EsrIl = 1 /\ EsrIss2 # 0
    /\ result = Err(InvalidEc(63))

\* C3, as claimed: with bits [37,64) zero, decode either succeeds with the EC
\* field described, or fails with InvalidEc{ec}.
C3_SucceedsOrInvalidEc ==
    (Done("decode") /\ EsrRes0 = 0) =>
        \/ /\ result.ok
           /\ Len(result.fields) = 5
           /\ result.fields[3].name = "EC"
           /\ result.fields[3].description # None
        \/ result = Err(InvalidEc(EsrEc))

\* C3, amended: with bits [37,64) zero, decode succeeds with five fields and
\* the EC field described (only for a recognized EC), or fails with
\* InvalidEc{ec} (exactly for an unrecognized EC), or, for a recognized EC,
\* fails with the error of that class's ISS decoder; it never panics and
\* never returns an empty field list.
C3_EcCoverage ==
    (Done("decode") /\ EsrRes0 = 0) =>
        \/ /\ result.ok
           /\ EsrEc \in RecognizedEc
           /\ Len(result.fields) = 5
           /\ result.fields[3].name = "EC"
           /\ result.fields[3].value = EsrEc
           /\ result.fields[3].description # None
           /\ result.fields[3].description # Some("")
        \/ /\ EsrEc \notin RecognizedEc
           /\ result = Err(InvalidEc(EsrEc))
        \/ /\ EsrEc \in RecognizedEc
           /\ ~result.ok
           /\ result.fields = <<>>
           /\ result.error.kind \in IssErrorKinds

\* C3 witness: a recognized EC (Unknown reason) whose ISS decoder rejects a
\* nonzero ISS, so that decode fails with an error other than InvalidEc.
C3_Witness ==
    /\ Done("decode")
    /\ EsrRes0 = 0 /\ EsrEc = 0 /\ EsrIss = 1
    /\ result = Err(InvalidRes0(1))


\* C4, as claimed: in a successful decode every field named RES0, at the top
\* level or among the ISS subfields, has the value 0.
C4_Res0FieldsAreZero ==
    (Done("decode") /\ result.ok) =>
        \A i \in 1..Len(result.fields) :
            /\ result.fields[i].name = "RES0" => result.fields[i].value = 0
            /\ \A j \in 1..Len(result.fields[i].subfields) :
                   result.fields[i].subfields[j].name = "RES0"
                       => result.fields[i].subfields[j].value = 0

\* C5: a successful decode returns [RES0, ISS2, EC, IL, ISS] at (37,27),
\* (32,5), (26,6), (25,1), (0,25); EC is described by the class of its value,
\* IL by its bit, RES0 and ISS2 are not described, and the class's decode is
\* in ISS.subfields.
C5_TopLevelLayout ==
    (Done("decode") /\ result.ok) =>
        LET f == result.fields
            arm == ec_match(EsrEc, EsrIss)
        IN /\ Len(f) = 5
           /\ <<f[1].name, f[2].name, f[3].name, f[4].name, f[5].name>>
                  = <<"RES0", "ISS2", "EC", "IL", "ISS">>
           /\ <<f[1].start, f[2].start, f[3].start, f[4].start, f[5].start>>
                  = <<37, 32, 26, 25, 0>>
           /\ <<f[1].width, f[2].width, f[3].width, f[4].width, f[5].width>>
                  = <<27, 5, 6, 1, 25>>
           /\ f[1].description = None
           /\ f[2].description = None
           /\ arm.known
           /\ f[3].description = Some(arm.class)
           /\ f[4].description = Some(IF EsrIl = 1 THEN "32-bit instruction trapped"
                                      ELSE "16-bit instruction trapped")
           /\ \A i \in 1..4 : f[i].subfields = <<>>
           /\ f[5].subfields = arm.iss.fields
           /\ f[5].subfields # <<>>

\* C5 witness: the Data Abort 0x97523050 decoded, with IL = 1 and fourteen
\* ISS subfields.
C5_Witness ==
    /\ Done("decode")
    /\ result.ok
    /\ EsrEc = 37 /\ EsrIl = 1 /\ EsrIss = 22163536
    /\ result.fields[3].description
           = Some("Data Abort taken without a change in Exception level")
    /\ result.fields[4].description = Some("32-bit instruction trapped")
    /\ Len(result.fields[5].subfields) = 14

\* value < 2^width, without computing a power above 2^30.
BelowTwoTo(value, width) ==
    IF width <= 30 THEN value < 2^width
    ELSE (value \div (2^30)) < 2^(width - 30)

\* C6: every field of a successful decode, decode_midr or decode_smccc has
\* value = (parent >> start) mod 2^width, the parent being the register for a
\* top-level field and the ISS value for an ISS subfield; so width >= 1 and
\* value < 2^width.
C6_ValueIsExtractedRange ==
    (pc = "done" /\ result.ok) =>
        \A i \in 1..Len(result.fields) :
            LET f == result.fields[i]
            IN /\ f.width >= 1
               /\ f.start + f.width <= 64
               /\ f.value = get_bits(input, f.start, f.start + f.width)
               /\ BelowTwoTo(f.value, f.width)
               /\ \A j \in 1..Len(f.subfields) :
                      LET g == f.subfields[j]
                      IN /\ g.width >= 1
                         /\ g.value = (f.value \div (2^g.start)) % (2^g.width)
                         /\ g.value < 2^g.width

\* C6 witness: the Data Abort 0x97523050, whose SRT subfield (bits [16,21) of
\* the ISS) is 18 and whose EC field is 37.
C6_Witness ==
    /\ Done("decode")
    /\ result.ok
    /\ EsrIss = 22163536
    /\ result.fields[3].value = 37
    /\ result.fields[5].value = 22163536
    /\ result.fields[5].subfields[4].name = "SRT"
    /\ result.fields[5].subfields[4].value = 18

\* The fault status codes with an arm in describe_fsc of abort.rs.
ValidFsc ==
    0..17 \cup 19..24 \cup 27..31 \cup {33, 41, 43, 48, 49, 52, 53}

\* What decode_iss_instruction_abort returns first, from the ISS bit ranges.
InstructionAbortOutcome ==
    IF IssBits(13, 25) # 0 THEN InvalidRes0(IssBits(13, 25))
    ELSE IF IssBits(8, 9) # 0 THEN InvalidRes0(1)
    ELSE IF IssBits(6, 7) # 0 THEN InvalidRes0(1)
    ELSE IF IssBits(0, 6) \notin ValidFsc THEN InvalidFsc(IssBits(0, 6))
    ELSE IF IssBits(0, 6) = 16 /\ IssBits(11, 13) = 1 THEN InvalidSet(1)
    ELSE NoError

\* C7: a failing decode returns only the error of the first failing step and
\* no fields: the top-level RES0 check, then the EC dispatch, then the ISS
\* decoder; in an Instruction Abort the RES0 checks of bits [13,25), 8 and 6,
\* then the IFSC lookup, then the SET lookup.
C7_FirstErrorWins ==
    Done("decode") =>
        /\ ~result.ok => result.fields = <<>> /\ result.description = None
        /\ result.ok => result.error = NoError
        /\ EsrRes0 # 0 => result.error = InvalidRes0(EsrRes0)
        /\ (EsrRes0 = 0 /\ EsrEc \notin RecognizedEc) => result.error = InvalidEc(EsrEc)
        /\ (EsrRes0 = 0 /\ EsrEc \in {32, 33}) =>
               /\ result.error = InstructionAbortOutcome
               /\ result.ok <=> InstructionAbortOutcome = NoError

\* C7 witness: an Instruction Abort with bit 6 set and the undefined IFSC
\* 0b010010 fails with InvalidRes0, not InvalidFsc.
C7_Witness ==
    /\ Done("decode")
    /\ EsrRes0 = 0 /\ EsrEc = 32
    /\ IssBits(13, 25) = 0 /\ IssBits(8, 9) = 0 /\ IssBits(6, 7) = 1
    /\ IssBits(0, 6) = 18
    /\ result = Err(InvalidRes0(1))


Shape(f) == <<f.name, f.start, f.width>>

Shapes(fields) == [i \in 1..Len(fields) |-> Shape(fields[i])]

\* The name under which an abort decoder emits ISS bits [11,13).
SetOrRes0 == IF IssBits(0, 6) = 16 THEN "SET" ELSE "RES0"

\* The Data Abort subfields from VNCR on, common to both values of ISV.
DataAbortTail ==
    <<<<"VNCR", 13, 1>>, <<SetOrRes0, 11, 2>>, <<"FnV", 10, 1>>, <<"EA", 9, 1>>,
      <<"CM", 8, 1>>, <<"S1PTW", 7, 1>>, <<"WnR", 6, 1>>, <<"DFSC", 0, 6>>>>

\* The fault status code and SET lookups of an abort decoder both succeed.
FscAndSetAccepted ==
    IssBits(0, 6) \in ValidFsc /\ ~(IssBits(0, 6) = 16 /\ IssBits(11, 13) = 1)

\* C8: for the Data Abort classes, with ISV = 1 the ISS subfields are [ISV,
\* SAS, SSE, SRT, SF, AR, VNCR, SET-or-RES0, FnV, EA, CM, S1PTW, WnR, DFSC]
\* and bits [14,24) do not affect success; with ISV = 0 they are [ISV,
\* RES0(14,10), VNCR, ...] and nonzero bits [14,24) fail with InvalidRes0 of
\* those bits.
C8_DataAbortIsvGating ==
    (Done("decode") /\ EsrRes0 = 0 /\ EsrEc \in {36, 37}) =>
        IF IssBits(24, 25) = 1
        THEN /\ result.ok <=> FscAndSetAccepted
             /\ result.ok =>
                    Shapes(result.fields[5].subfields)
                        = <<<<"ISV", 24, 1>>, <<"SAS", 22, 2>>, <<"SSE", 21, 1>>,
                            <<"SRT", 16, 5>>, <<"SF", 15, 1>>, <<"AR", 14, 1>>>>
                          \o DataAbortTail
        ELSE /\ IssBits(14, 24) # 0 => result = Err(InvalidRes0(IssBits(14, 24)))
             /\ IssBits(14, 24) = 0 => (result.ok <=> FscAndSetAccepted)
             /\ result.ok =>
                    Shapes(result.fields[5].subfields)
                        = <<<<"ISV", 24, 1>>, <<"RES0", 14, 10>>>> \o DataAbortTail

\* C8 witness: a Data Abort with ISV = 1 and all of bits [14,24) set decodes
\* into fourteen subfields, SAS second.
C8_Witness ==
    /\ Done("decode")
    /\ EsrRes0 = 0 /\ EsrEc = 37
    /\ IssBits(24, 25) = 1 /\ IssBits(14, 24) = 1023
    /\ result.ok
    /\ Len(result.fields[5].subfields) = 14
    /\ result.fields[5].subfields[2].name = "SAS"
    /\ result.fields[5].subfields[2].value = 3

\* The RES0 checks an abort decoder makes before its fault status code lookup
\* all pass.
AbortRes0ChecksPass ==
    IF EsrEc \in {32, 33}
    THEN IssBits(13, 25) = 0 /\ IssBits(8, 9) = 0 /\ IssBits(6, 7) = 0
    ELSE IssBits(24, 25) = 1 \/ IssBits(14, 24) = 0

\* The subfield an abort decoder emits for ISS bits [11,13).
SetField ==
    LET subs == result.fields[5].subfields
    IN subs[CHOOSE i \in 1..Len(subs) : subs[i].start = 11]

\* C9: the abort decoders emit ISS bits [11,13) as a described field SET
\* exactly when the fault status code is 0b010000; SET 0, 2 and 3 then succeed
\* with their descriptions and SET 1 fails with InvalidSet{1}; for any other
\* valid fault status code the bits are a field RES0 with no description.
C9_SetOnlyForSynchronousExternalAbort ==
    (Done("decode") /\ EsrRes0 = 0 /\ EsrEc \in {32, 33, 36, 37}) =>
        /\ result.ok =>
               /\ \E i \in 1..Len(result.fields[5].subfields) :
                      result.fields[5].subfields[i].start = 11
               /\ Shape(SetField) = <<SetOrRes0, 11, 2>>
               /\ SetField.name = "SET" <=> IssBits(0, 6) = 16
               /\ IssBits(0, 6) = 16 =>
                      /\ IssBits(11, 13) # 1
                      /\ IssBits(11, 13) = 0 =>
                             SetField.description = Some("Recoverable state (UER)")
                      /\ IssBits(11, 13) = 2 =>
                             SetField.description = Some("Uncontainable (UC)")
                      /\ IssBits(11, 13) = 3 =>
                             SetField.description = Some("Restartable state (UEO)")
               /\ IssBits(0, 6) # 16 =>
                      SetField.name = "RES0" /\ SetField.description = None
        /\ (AbortRes0ChecksPass /\ IssBits(0, 6) = 16) =>
               IF IssBits(11, 13) = 1 THEN result = Err(InvalidSet(1)) ELSE result.ok

\* C9 witness: an abort with fault status code 0b010000 and SET = 0b10
\* decodes with the field SET described as uncontainable.
C9_Witness ==
    /\ Done("decode")
    /\ EsrRes0 = 0 /\ EsrEc \in {32, 37}
    /\ IssBits(0, 6) = 16 /\ IssBits(11, 13) = 2
    /\ result.ok
    /\ SetField.name = "SET"
    /\ SetField.description = Some("Uncontainable (UC)")

\* The DFSC or IFSC subfield, which both abort decoders emit last.
FscField ==
    LET subs == result.fields[5].subfields IN subs[Len(subs)]

\* C10: for the abort classes, once the earlier RES0 checks pass, decode fails
\* with InvalidFsc{fsc} exactly when the fault status code is not one of the
\* 36 codes of describe_fsc; otherwise the DFSC/IFSC field carries that
\* code's description.
C10_InvalidFscIffUnlisted ==
    (Done("decode") /\ EsrRes0 = 0 /\ EsrEc \in {32, 33, 36, 37} /\ AbortRes0ChecksPass) =>
        /\ result = Err(InvalidFsc(IssBits(0, 6))) <=> IssBits(0, 6) \notin ValidFsc
        /\ Cardinality(ValidFsc) = 36
        /\ {18, 32, 63} \cap ValidFsc = {}
        /\ result.ok =>
               /\ FscField.name = (IF EsrEc \in {32, 33} THEN "IFSC" ELSE "DFSC")
               /\ FscField.value = IssBits(0, 6)
               /\ FscField.description # None
               /\ IssBits(0, 6) = 1 =>
                      FscField.description = Some("Address size fault, level 1.")
               /\ IssBits(0, 6) = 16 =>
                      FscField.description
                          = Some("Synchronous External abort, not on translation table walk or hardware update of translation table.")
               /\ IssBits(0, 6) = 33 =>
                      FscField.description = Some("Alignment fault.")
               /\ IssBits(0, 6) = 53 =>
                      FscField.description
                          = Some("IMPLEMENTATION DEFINED fault (Unsupported Exclusive or Atomic access).")

\* C10 witness: a Data Abort whose RES0 checks pass and whose fault status
\* code is the undefined 0b010010 fails with InvalidFsc{18}.
C10_Witness ==
    /\ Done("decode")
    /\ EsrRes0 = 0 /\ EsrEc = 37
    /\ AbortRes0ChecksPass
    /\ IssBits(0, 6) = 18
    /\ result = Err(InvalidFsc(18))


\* The register name decode_iss_msr looks up for the ISS of the input.
MsrName ==
    sysreg_name(IssBits(20, 22), IssBits(14, 17), IssBits(17, 20), IssBits(10, 14),
                IssBits(1, 5))

\* Rt of the ISS of the input, in decimal.
MsrRt == ToString(IssBits(5, 10))

\* C11: for the MSR/MRS class, nonzero ISS bits [22,25) fail with
\* InvalidRes0; otherwise decode succeeds and ISS.description is
\* "MSR <name>, x<Rt>" for Direction 0 and "MRS x<Rt>, <name>" for Direction
\* 1, the name being the table entry of (Op0, Op1, Op2, CRn, CRm) and
\* "unknown" for a tuple outside the table, as every tuple with Op0 # 3 is.
C11_MsrDescription ==
    (Done("decode") /\ EsrRes0 = 0 /\ EsrEc = 24) =>
        IF IssBits(22, 25) # 0
        THEN result = Err(InvalidRes0(IssBits(22, 25)))
        ELSE /\ result.ok
             /\ result.fields[5].description
                    = Some(IF IssBits(0, 1) = 0
                           THEN "MSR " \o MsrName \o ", x" \o MsrRt
                           ELSE "MRS x" \o MsrRt \o ", " \o MsrName)
             /\ Shapes(result.fields[5].subfields)
                    = <<<<"RES0", 22, 3>>, <<"Op0", 20, 2>>, <<"Op2", 17, 3>>,
                        <<"Op1", 14, 3>>, <<"CRn", 10, 4>>, <<"Rt", 5, 5>>,
                        <<"CRm", 1, 4>>, <<"Direction", 0, 1>>>>
             /\ IssBits(20, 22) # 3 => MsrName = "unknown"
             /\ EsrIss = MsrIss(0, 3, 1, 0, 1, 18, 0, 0) =>
                    result.fields[5].description = Some("MSR ACTLR_EL1, x18")
             /\ EsrIss = MsrIss(0, 3, 1, 0, 1, 18, 0, 1) =>
                    result.fields[5].description = Some("MRS x18, ACTLR_EL1")
             /\ EsrIss = MsrIss(0, 3, 3, 0, 1, 7, 0, 1) =>
                    result.fields[5].description = Some("MRS x7, unknown")
             /\ EsrIss = MsrIss(0, 2, 1, 0, 1, 3, 0, 0) =>
                    result.fields[5].description = Some("MSR unknown, x3")

\* C11 witness: a read of ACTLR_EL1 into x18 is described as an MRS.
C11_Witness ==
    /\ Done("decode")
    /\ EsrRes0 = 0 /\ EsrEc = 24
    /\ EsrIss = MsrIss(0, 3, 1, 0, 1, 18, 0, 1)
    /\ result.ok
    /\ result.fields[5].description = Some("MRS x18, ACTLR_EL1")


\* C12: for the SError class with IDS = 1 decode succeeds with the subfields
\* [IDS, IMPDEF(0,24)] whatever the other ISS bits are; with IDS = 0 the
\* subfields are [IDS, RES0(14,10), IESB-or-RES0(13,1), AET(10,3), EA(9,1),
\* RES0(6,3), DFSC(0,6)], a DFSC other than 0b000000 and 0b010001 fails with
\* InvalidFsc, bit 13 is the described field IESB exactly when DFSC is
\* 0b010001 and must otherwise be zero, and bits [14,24) and [6,9) must be
\* zero.
C12_SErrorIdsGating ==
    (Done("decode") /\ EsrRes0 = 0 /\ EsrEc = 47) =>
        LET subs == result.fields[5].subfields
            dfsc == IssBits(0, 6)
        IN IF IssBits(24, 25) = 1
           THEN /\ result.ok
                /\ Shapes(subs) = <<<<"IDS", 24, 1>>, <<"IMPDEF", 0, 24>>>>
           ELSE /\ dfsc \notin {0, 17} => result = Err(InvalidFsc(dfsc))
                /\ (dfsc \in {0, 17} /\ IssBits(14, 24) # 0) =>
                       result = Err(InvalidRes0(IssBits(14, 24)))
                /\ (dfsc = 0 /\ IssBits(14, 24) = 0 /\ IssBits(13, 14) = 1) =>
                       result = Err(InvalidRes0(1))
                /\ (dfsc \in {0, 17} /\ IssBits(6, 9) # 0) => ~result.ok
                /\ ( /\ dfsc \in {0, 17}
                     /\ IssBits(14, 24) = 0
                     /\ IssBits(6, 9) = 0
                     /\ dfsc = 0 => IssBits(13, 14) = 0
                     /\ IssBits(10, 13) \in 0..3 ) => result.ok
                /\ result.ok =>
                       /\ Shapes(subs)
                              = <<<<"IDS", 24, 1>>, <<"RES0", 14, 10>>,
                                  <<IF dfsc = 17 THEN "IESB" ELSE "RES0", 13, 1>>,
                                  <<"AET", 10, 3>>, <<"EA", 9, 1>>, <<"RES0", 6, 3>>,
                                  <<"DFSC", 0, 6>>>>
                       /\ subs[3].name = "IESB" <=> dfsc = 17
                       /\ dfsc = 17 =>
                              subs[3].description
                                  = Some(describe_iesb(IssBits(13, 14) = 1))
                       /\ dfsc # 17 => subs[3].value = 0
                       /\ subs[2].value = 0
                       /\ subs[6].value = 0

\* C12 witness: an SError with IDS = 0, DFSC = 0b010001 and bit 13 set decodes
\* with bit 13 as the field IESB.
C12_Witness ==
    /\ Done("decode")
    /\ EsrRes0 = 0 /\ EsrEc = 47
    /\ IssBits(24, 25) = 0 /\ IssBits(0, 6) = 17 /\ IssBits(13, 14) = 1
    /\ result.ok
    /\ result.fields[5].subfields[3].name = "IESB"
    /\ result.fields[5].subfields[3].value = 1

\* The five descriptions enumerated in describe_aet.
AetDescriptions ==
    {"Uncontainable (UC)", "Unrecoverable state (UEU)", "Restartable state (UEO)",
     "Recoverable state (UER)", "Corrected (CE)"}

\* decode of the input with its AET (bits [10,13)) replaced by aet.
DecodeWithAet(aet) ==
    decode([input EXCEPT ![10] = Bit(aet, 0), ![11] = Bit(aet, 1), ![12] = Bit(aet, 2)])

\* C13, as claimed: for an SError ISS with IDS = 0 whose other checks pass,
\* each of the five descriptions of describe_aet is produced for exactly one
\* of the eight AET values, and the other three values fail with
\* InvalidAet{aet}.
C13_FiveAetDescriptions ==
    ( /\ Done("decode")
      /\ EsrRes0 = 0 /\ EsrEc = 47
      /\ IssBits(24, 25) = 0
      /\ IssBits(0, 6) \in {0, 17}
      /\ IssBits(14, 24) = 0 /\ IssBits(6, 9) = 0
      /\ IssBits(0, 6) = 0 => IssBits(13, 14) = 0 ) =>
        /\ \A d \in AetDescriptions :
               Cardinality({aet \in 0..7 :
                   /\ DecodeWithAet(aet).ok
                   /\ DecodeWithAet(aet).fields[5].subfields[4].description = Some(d)}) = 1
        /\ Cardinality({aet \in 0..7 : DecodeWithAet(aet) = Err(InvalidAet(aet))}) = 3


\* The implementer codes with an arm in describe_implementer.
ImplementerCodes == {0, 192, 65, 66, 67, 68, 70, 73, 77, 78, 80, 81, 86, 105}

\* The architecture codes with an arm in describe_architecture.
ArchitectureCodes == 1..7 \cup {15}

\* C14: decode_midr fails with InvalidRes0{v >> 32} exactly when bits [32,64)
\* are nonzero; otherwise it succeeds with [RES0(32,32), Implementer(24,8),
\* Variant(20,4), Architecture(16,4), PartNum(4,12), Revision(0,4)], none
\* with subfields, and codes outside the tables are described "Unknown" and
\* "Reserved".
C14_MidrLayout ==
    Done("decode_midr") =>
        /\ ~result.ok <=> get_bits(input, 32, 64) # 0
        /\ ~result.ok => result = Err(InvalidRes0(get_bits(input, 32, 64)))
        /\ result.ok =>
               /\ Shapes(result.fields)
                      = <<<<"RES0", 32, 32>>, <<"Implementer", 24, 8>>, <<"Variant", 20, 4>>,
                          <<"Architecture", 16, 4>>, <<"PartNum", 4, 12>>,
                          <<"Revision", 0, 4>>>>
               /\ \A i \in 1..6 : result.fields[i].subfields = <<>>
               /\ result.fields[2].description # None
               /\ result.fields[4].description # None
               /\ get_bits(input, 24, 32) \notin ImplementerCodes
                      <=> result.fields[2].description = Some("Unknown")
               /\ get_bits(input, 16, 20) \notin ArchitectureCodes
                      <=> result.fields[4].description = Some("Reserved")

\* C14 witness: a MIDR with bits [32,64) zero and an implementer and an
\* architecture outside the tables decodes.
C14_Witness ==
    /\ Done("decode_midr")
    /\ result.ok
    /\ get_bits(input, 32, 64) = 0
    /\ get_bits(input, 24, 32) = 255
    /\ get_bits(input, 16, 20) = 8
    /\ result.fields[2].description = Some("Unknown")
    /\ result.fields[4].description = Some("Reserved")


\* C15: for the Software Step classes ISS bit 6 is the described field EX
\* exactly when ISV is 1; with ISV = 0 it is RES0 and a value of 1 fails with
\* InvalidRes0{1}; bits [7,24) must be zero in both cases and the subfields
\* are [ISV, RES0(7,17), EX-or-RES0(6,1), IFSC(0,6)].
C15_SoftwareStepExGating ==
    (Done("decode") /\ EsrRes0 = 0 /\ EsrEc \in {50, 51}) =>
        LET subs == result.fields[5].subfields
            isv == IssBits(24, 25)
        IN /\ IssBits(7, 24) # 0 => result = Err(InvalidRes0(IssBits(7, 24)))
           /\ (IssBits(7, 24) = 0 /\ isv = 0 /\ IssBits(6, 7) = 1) =>
                  result = Err(InvalidRes0(1))
           /\ (IssBits(7, 24) = 0 /\ (isv = 1 \/ IssBits(6, 7) = 0)) =>
                  IF IssBits(0, 6) = 34 THEN result.ok
                  ELSE result = Err(InvalidFsc(IssBits(0, 6)))
           /\ result.ok =>
                  /\ Shapes(subs)
                         = <<<<"ISV", 24, 1>>, <<"RES0", 7, 17>>,
                             <<IF isv = 1 THEN "EX" ELSE "RES0", 6, 1>>, <<"IFSC", 0, 6>>>>
                  /\ subs[3].name = "EX" <=> isv = 1
                  /\ isv = 1 =>
                         subs[3].description
                             = Some(IF IssBits(6, 7) = 1
                                    THEN "A Load-Exclusive instruction was stepped"
                                    ELSE "Some instruction other than a Load-Exclusive was stepped")
                  /\ isv = 0 => subs[3].description = None /\ subs[3].value = 0
                  /\ subs[2].value = 0

\* C15 witness: a Software Step with ISV = 1 and bit 6 set decodes with bit 6
\* as the field EX.
C15_Witness ==
    /\ Done("decode")
    /\ EsrRes0 = 0 /\ EsrEc = 50
    /\ IssBits(24, 25) = 1 /\ IssBits(6, 7) = 1 /\ IssBits(0, 6) = 34
    /\ result.ok
    /\ result.fields[5].subfields[3].name = "EX"
    /\ result.fields[5].subfields[3].description
           = Some("A Load-Exclusive instruction was stepped")


SmcccCall == get_bits(input, 31, 32)

SmcccConvention == get_bits(input, 30, 31)

SmcccService == get_bits(input, 24, 30)

SmcccFunction == get_bits(input, 0, 16)

\* The description the table selected by Service Call and Call Convention
\* gives the function number of the input.
FunctionNumberDescription ==
    LET conv == SmcccConvention
        fn == SmcccFunction
    IN CASE SmcccService = 0 ->
                IF conv = 0 THEN describe_arm32_service(fn) ELSE describe_arm64_service(fn)
         [] SmcccService = 4 ->
                IF conv = 0 THEN describe_secure32_service(fn)
                ELSE describe_secure64_service(fn)
         [] SmcccService = 5 ->
                IF conv = 0 THEN describe_general32_queries(fn)
                ELSE describe_hyp64_service(fn)
         [] SmcccService \in 48..49 -> OkStr(decode_tapp_service(input, conv).field.description[1])
         [] OTHER ->
                IF conv = 0 THEN describe_general32_queries(fn)
                ELSE describe_general64_queries(fn)

\* C16: decode_smccc returns [Call Type "Yielding Call", Service Type(0,31)]
\* when bit 31 is 0 and [Call Type "Fast Call", Call Convention(30,1), Service
\* Call(24,6), MBZ(17,7), SVE live state(16,1), Function Number(0,16)] when it
\* is 1, the Function Number being described by the table of the Service Call
\* (0x00, 0x04, 0x05, 0x30-0x31, any other) and the Call Convention.
C16_SmcccDispatch ==
    Done("decode_smccc") =>
        /\ result.ok
        /\ IF SmcccCall = 0
           THEN /\ Shapes(result.fields) = <<<<"Call Type", 31, 1>>, <<"Service Type", 0, 31>>>>
                /\ result.fields[1].description = Some("Yielding Call")
           ELSE /\ Shapes(result.fields)
                       = <<<<"Call Type", 31, 1>>, <<"Call Convention", 30, 1>>,
                           <<"Service Call", 24, 6>>, <<"MBZ", 17, 7>>,
                           <<"SVE live state", 16, 1>>, <<"Function Number", 0, 16>>>>
                /\ result.fields[1].description = Some("Fast Call")
                /\ result.fields[6].description = Some(FunctionNumberDescription.str)
                /\ (SmcccService = 0 /\ SmcccConvention = 0 /\ SmcccFunction = 65281) =>
                       result.fields[6].description
                           = Some("Call UUID Query, deprecated from SMCCCv1.2")
                /\ (SmcccService = 0 /\ SmcccConvention = 1 /\ SmcccFunction = 65281) =>
                       result.fields[6].description = Some("Reserved for future expansion")
                /\ (SmcccService = 4 /\ SmcccFunction = 32) =>
                       result.fields[6].description
                           = Some("SDEI Call (Software Delegated Exception Interface)")
                /\ (SmcccService = 5 /\ SmcccConvention = 1 /\ SmcccFunction = 32) =>
                       result.fields[6].description = Some("PV Time 64-bit calls")
                /\ (SmcccService = 5 /\ SmcccConvention = 0 /\ SmcccFunction = 32) =>
                       result.fields[6].description = Some("")
                /\ (SmcccService \notin {0, 4, 5, 48, 49} /\ SmcccFunction = 32) =>
                       result.fields[6].description = Some("")
                /\ ( /\ SmcccService \notin {0, 4, 5, 48, 49}
                     /\ SmcccConvention = 0 /\ SmcccFunction = 65281 ) =>
                       result.fields[6].description = Some("Call UUID Query")

\* C16 witness: an SMC64 Fast Call to the standard hypervisor service with
\* function number 0x20 gets its description from the 64-bit hypervisor table.
C16_Witness ==
    /\ Done("decode_smccc")
    /\ SmcccCall = 1 /\ SmcccConvention = 1 /\ SmcccService = 5 /\ SmcccFunction = 32
    /\ result.ok
    /\ Len(result.fields) = 6
    /\ result.fields[6].description = Some("PV Time 64-bit calls")

\* A description is an FF-A one: a name starting "FFA_" or the range label.
IsFfaDescription(description) ==
    /\ description # None
    /\ \/ description[1] = "Unknown FF-A Call"
       \/ Len(description[1]) >= 4 /\ SubSeq(description[1], 1, 4) = "FFA_"

\* The function numbers listed in ffa_64_function_id.
Ffa64Numbers == {102, 111, 112, 113, 114, 115, 116}

\* C17: an FF-A description appears only on the Function Number of a Fast
\* Call with Service Call 0x04; there, under SMC32 every function number in
\* 0x60..=0x7C gets its FFA_* name rather than the range label, and under
\* SMC64 only the seven numbers of ffa_64_function_id get an FFA_*_64 name
\* while the other numbers in 0x60..=0xEF get "Unknown FF-A Call".
C17_FfaOnlyFromSecureService ==
    (Done("decode_smccc") /\ result.ok) =>
        /\ \A i \in 1..Len(result.fields) :
               IsFfaDescription(result.fields[i].description) =>
                   /\ SmcccCall = 1
                   /\ SmcccService = 4
                   /\ result.fields[i].name = "Function Number"
        /\ (SmcccCall = 1 /\ SmcccService = 4 /\ SmcccFunction \in 96..239) =>
               LET description == result.fields[6].description
               IN /\ IsFfaDescription(description)
                  /\ (SmcccConvention = 0 /\ SmcccFunction \in 96..124) =>
                         /\ description # Some("Unknown FF-A Call")
                         /\ description = Some(ffa_32_function_id(SmcccFunction)[1])
                  /\ (SmcccConvention = 0 /\ SmcccFunction = 96) =>
                         description = Some("FFA_ERROR_32")
                  /\ (SmcccConvention = 0 /\ SmcccFunction = 124) =>
                         description = Some("FFA_NORMAL_WORLD_RESUME")
                  /\ SmcccConvention = 1 =>
                         /\ SmcccFunction \in Ffa64Numbers
                                <=> description # Some("Unknown FF-A Call")
                         /\ SmcccFunction \in Ffa64Numbers =>
                                description = Some(ffa_64_function_id(SmcccFunction)[1])
                  /\ (SmcccConvention = 1 /\ SmcccFunction = 102) =>
                         description = Some("FFA_RXTX_MAP_64")
                  /\ (SmcccConvention = 1 /\ SmcccFunction = 116) =>
                         description = Some("FFA_MEM_RETRIEVE_REQ_64")

\* C17 witness: an SMC32 Fast Call to the standard secure service with
\* function number 0x6F is described FFA_MSG_SEND_DIRECT_REQ_32.
C17_Witness ==
    /\ Done("decode_smccc")
    /\ SmcccCall = 1 /\ SmcccConvention = 0 /\ SmcccService = 4 /\ SmcccFunction = 111
    /\ result.ok
    /\ result.fields[6].description = Some("FFA_MSG_SEND_DIRECT_REQ_32")


\* C18: for the classes whose ISS is entirely reserved (EC 0x00, 0x0E, 0x19,
\* 0x22, 0x26), with bits [37,64) zero, decode succeeds exactly when the ISS
\* is 0, with the single ISS subfield RES0(0,25) of value 0 described "ISS is
\* RES0"; a nonzero ISS fails with InvalidRes0{ISS}.
C18_ReservedIss ==
    (Done("decode") /\ EsrRes0 = 0 /\ EsrEc \in {0, 14, 25, 34, 38}) =>
        IF EsrIss = 0
        THEN /\ result.ok
             /\ Shapes(result.fields[5].subfields) = <<<<"RES0", 0, 25>>>>
             /\ result.fields[5].subfields[1].value = 0
             /\ result.fields[5].subfields[1].description = Some("ISS is RES0")
        ELSE result = Err(InvalidRes0(EsrIss))

\* C18 witness: an SP alignment fault with ISS bit 24 set fails with
\* InvalidRes0 of the whole ISS.
C18_Witness ==
    /\ Done("decode")
    /\ EsrRes0 = 0 /\ EsrEc = 38
    /\ EsrIss = 16777216
    /\ result = Err(InvalidRes0(16777216))

\* C19: for the LD64B/ST64B class the whole ISS is one subfield ISS(0,25):
\* 0, 1 and 2 decode with "ST64BV trapped", "ST64BV0 trapped" and "LD64B or
\* ST64B trapped", every other value fails with InvalidLd64bIss{iss}.
C19_Ld64bEnumeration ==
    (Done("decode") /\ EsrRes0 = 0 /\ EsrEc = 10) =>
        IF EsrIss \in 0..2
        THEN /\ result.ok
             /\ Shapes(result.fields[5].subfields) = <<<<"ISS", 0, 25>>>>
             /\ result.fields[5].subfields[1].value = EsrIss
             /\ result.fields[5].subfields[1].description
                    = Some(CASE EsrIss = 0 -> "ST64BV trapped"
                             [] EsrIss = 1 -> "ST64BV0 trapped"
                             [] EsrIss = 2 -> "LD64B or ST64B trapped")
        ELSE result = Err(InvalidLd64bIss(EsrIss))

\* C19 witness: ISS = 3 fails with InvalidLd64bIss{3}.
C19_Witness ==
    /\ Done("decode")
    /\ EsrRes0 = 0 /\ EsrEc = 10
    /\ EsrIss = 3
    /\ result = Err(InvalidLd64bIss(3))


\* The fields are in strictly descending bit position without overlap, the
\* first of them inside a parent of the given width.
Descending(fields, parent_width) ==
    /\ fields # <<>> => fields[1].start + fields[1].width <= parent_width
    /\ \A i \in 2..Len(fields) :
           fields[i].start + fields[i].width <= fields[i - 1].start

\* The width of the register the decoder of the call reads.
RegisterWidth == IF op = "decode_smccc" THEN 32 ELSE 64

\* C20: in every successful decode, decode_midr or decode_smccc result the
\* sibling fields of each level are in strictly descending bit position with
\* start + width <= the previous sibling's start, the first within the
\* parent's width: 64 for the ESR and MIDR, 32 for SMCCC, the ISS field's 25
\* for its subfields.
C20_SiblingsDescend ==
    (pc = "done" /\ result.ok) =>
        /\ Descending(result.fields, RegisterWidth)
        /\ \A i \in 1..Len(result.fields) :
               /\ Descending(result.fields[i].subfields, result.fields[i].width)
               /\ result.fields[i].subfields # <<>> =>
                      op = "decode" /\ i = 5 /\ result.fields[i].width = 25

\* C20 witness: an SError with IDS = 0 decodes into seven ISS subfields, DFSC
\* last.
C20_Witness ==
    /\ Done("decode")
    /\ result.ok
    /\ EsrEc = 47 /\ IssBits(24, 25) = 0
    /\ Len(result.fields[5].subfields) = 7
    /\ result.fields[5].subfields[7].name = "DFSC"
    /\ result.fields[5].subfields[7].start = 0


(***************************************************************************)
(* Properties of the field combinators, under FieldSpec.                   *)
(***************************************************************************)
\* The field with no more than its description replaced.
Described(self, description) == [self EXCEPT !.description = Some(description)]

\* C21: check_res0 returns the identical field when its value is 0 and fails
\* with InvalidRes0{value} otherwise; describe returns the describer's error
\* unchanged, or the same field with only its description set;
\* with_description and describe_bit change nothing but the description.
C21_CombinatorsPreserveField ==
    pc = "done" =>
        LET self == input.self
        IN /\ op = "check_res0" =>
                  IF self.value = 0 THEN result = OkField(self)
                  ELSE result = ErrField(InvalidRes0(self.value))
           /\ op = "describe" =>
                  LET description == ApplyDescriber(input.arg, self.value)
                  IN IF description.ok
                     THEN result = OkField(Described(self, description.str))
                     ELSE result = ErrField(description.error)
           /\ op = "with_description" => result = OkField(Described(self, input.arg))
           /\ op = "describe_bit" =>
                  result = OkField(Described(self,
                                             ApplyBitDescriber(input.arg, self.value = 1)))
           /\ result.ok =>
                  /\ result.field.name = self.name
                  /\ result.field.long_name = self.long_name
                  /\ result.field.start = self.start
                  /\ result.field.width = self.width
                  /\ result.field.value = self.value
                  /\ result.field.subfields = self.subfields

\* C21 witness: describe with describe_fsc on a DFSC field of value
\* 0b010000 returns the field, of the same value, with its description set.
C21_Witness ==
    /\ pc = "done"
    /\ op = "describe"
    /\ input.arg = "describe_fsc"
    /\ input.self.name = "DFSC"
    /\ input.self.value = 16
    /\ result.ok
    /\ result.field.value = 16
    /\ result.field.description
           = Some("Synchronous External abort, not on translation table walk or hardware update of translation table.")


(***************************************************************************)
(* Properties of related calls, under Spec.                                 *)
(***************************************************************************)
\* The kinds of DecodeError.
DecodeErrorKinds ==
    {"InvalidRes0", "InvalidEc", "InvalidFsc", "InvalidSet", "InvalidAet", "InvalidAm",
     "InvalidLd64bIss"}

\* C23: decode, decode_midr and decode_smccc return Ok or Err without
\* panicking: the assertion of as_bit never fails, and the unreachable!()
\* arms of the SAS and TI matches are never taken, both fields being two bits
\* wide.
C23_NoPanic ==
    pc = "done" =>
        /\ result.error # Panic
        /\ IF result.ok THEN result.error = NoError
           ELSE result.error.kind \in DecodeErrorKinds
        /\ (op = "decode" /\ result.ok /\ EsrEc \in {36, 37} /\ IssBits(24, 25) = 1) =>
               /\ result.fields[5].subfields[2].name = "SAS"
               /\ result.fields[5].subfields[2].width = 2
               /\ result.fields[5].subfields[2].description
                      \in {Some("byte"), Some("halfword"), Some("word"), Some("doubleword")}
        /\ (op = "decode" /\ result.ok /\ EsrEc = 1) =>
               /\ result.fields[5].subfields[7].name = "TI"
               /\ result.fields[5].subfields[7].width = 2
               /\ result.fields[5].subfields[7].description
                      \in {Some("WFI trapped"), Some("WFE trapped"), Some("WFIT trapped"),
                           Some("WFET trapped")}

\* C23 witness: a WF* syndrome with TI = 0b11, the largest value of the
\* field, decodes as WFET.
C23_Witness ==
    /\ Done("decode")
    /\ EsrRes0 = 0 /\ EsrEc = 1
    /\ IssBits(0, 2) = 3
    /\ result.ok
    /\ result.fields[5].subfields[7].description = Some("WFET trapped")


\* The RES0 checks of the debug exception class of the input all pass.
DebugRes0ChecksPass ==
    CASE EsrEc \in {48, 49} -> IssBits(6, 25) = 0
      [] EsrEc \in {50, 51} ->
             IssBits(7, 24) = 0 /\ (IssBits(24, 25) = 1 \/ IssBits(6, 7) = 0)
      [] EsrEc \in {52, 53} ->
             /\ IssBits(15, 25) = 0 /\ IssBits(14, 15) = 0
             /\ IssBits(9, 13) = 0 /\ IssBits(7, 8) = 0

\* C24: for the Breakpoint, Software Step and Watchpoint classes (EC 0x30 to
\* 0x35) decode succeeds only if ISS bits [0,6) are 0b100010; any other fault
\* status code, 0 included, fails with InvalidFsc{fsc} once the class's RES0
\* checks pass; for EC 0x30 and 0x31 only the ISS 0x22 decodes.
C24_DebugFscOnly ==
    (Done("decode") /\ EsrRes0 = 0 /\ EsrEc \in 48..53) =>
        /\ result.ok => IssBits(0, 6) = 34
        /\ result.ok => FscField.description = Some("Debug exception")
        /\ DebugRes0ChecksPass =>
               IF IssBits(0, 6) = 34 THEN result.ok
               ELSE result = Err(InvalidFsc(IssBits(0, 6)))
        /\ ~DebugRes0ChecksPass => (~result.ok /\ result.error.kind = "InvalidRes0")
        /\ EsrEc \in {48, 49} => (result.ok <=> EsrIss = 34)

\* C24 witness: a Watchpoint whose RES0 checks pass and whose DFSC is 0
\* fails with InvalidFsc{0}.
C24_Witness ==
    /\ Done("decode")
    /\ EsrRes0 = 0 /\ EsrEc = 52
    /\ DebugRes0ChecksPass
    /\ IssBits(0, 6) = 0
    /\ result = Err(InvalidFsc(0))

SmcccMbz == get_bits(input, 17, 24)

SmcccHigh == get_bits(input, 32, 63)

\* C25: decode_smccc returns Ok for every input: no field is validated.  A
\* nonzero MBZ is reported, not rejected; a Service Type in no listed range is
\* "Unknown"; a Service Call in 7..47 is "Reserved for future use"; a Function
\* Number its table does not list gets the empty description or, from 0xff00
\* on, "Reserved for future expansion".
C25_SmcccTotal ==
    Done("decode_smccc") =>
        /\ result.ok
        /\ result.error = NoError
        /\ \A i \in 1..Len(result.fields) :
               result.fields[i].name \notin {"MBZ", "SVE live state"} =>
                   result.fields[i].description # None
        /\ (SmcccCall = 0 /\ get_bits(input, 0, 31) \in 16842752..33554431) =>
               result.fields[2].description = Some("Unknown")
        /\ SmcccCall = 1 =>
               /\ result.fields[4].name = "MBZ"
               /\ result.fields[4].value = SmcccMbz
               /\ SmcccService \in 7..47 =>
                      /\ result.fields[3].description = Some("Reserved for future use")
                      /\ SmcccFunction \in {0, 32, 96} =>
                             result.fields[6].description = Some("")
                      /\ (SmcccFunction = 65280 /\ SmcccConvention = 1) =>
                             result.fields[6].description
                                 = Some("Reserved for future expansion")

\* C25 witness: a Fast Call with every MBZ bit set, a reserved Service Call
\* and an unlisted Function Number decodes, the MBZ value reported as 127.
C25_Witness ==
    /\ Done("decode_smccc")
    /\ SmcccCall = 1 /\ SmcccService = 32 /\ SmcccMbz = 127 /\ SmcccFunction = 96
    /\ result.ok
    /\ result.fields[4].value = 127
    /\ result.fields[3].description = Some("Reserved for future use")
    /\ result.fields[6].description = Some("")

\* The register with bits [32,64) cleared.
Low32(register) == [i \in BitIndex |-> IF i < 32 THEN register[i] ELSE 0]

\* C26: the result of decode_smccc depends on bits [0,32) only: it is the
\* result for the input with bits [32,64) cleared, so inputs that agree on the
\* low 32 bits decode alike, and no field of the result reports a bit from 32 up.
C26_SmcccLow32Only ==
    Done("decode_smccc") =>
        /\ result = decode_smccc(Low32(input))
        /\ \A i \in 1..Len(result.fields) :
               result.fields[i].start + result.fields[i].width <= 32

\* C26 witness: a call with bits set in [32,64) has been decoded successfully.
C26_Witness ==
    /\ Done("decode_smccc")
    /\ SmcccHigh # 0
    /\ input # Low32(input)
    /\ result.ok
    /\ result = decode_smccc(Low32(input))

\* The register with ISS2 (bits [32,37)) and IL (bit 25) replaced.
WithIss2Il(register, iss2, il) ==
    [i \in BitIndex |-> IF i = 25 THEN il
                        ELSE IF i >= 32 /\ i < 37 THEN Bit(iss2, i - 32)
                        ELSE register[i]]

\* Two results of decode fail alike, or both succeed with the same fields
\* except for the value of ISS2 and the value and description of IL.
SameButIss2Il(a, b) ==
    /\ a.ok = b.ok
    /\ a.error = b.error
    /\ a.description = b.description
    /\ Len(a.fields) = Len(b.fields)
    /\ a.ok =>
           /\ Len(a.fields) = 5
           /\ a.fields[1] = b.fields[1]
           /\ a.fields[3] = b.fields[3]
           /\ a.fields[5] = b.fields[5]
           /\ [a.fields[2] EXCEPT !.value = 0] = [b.fields[2] EXCEPT !.value = 0]
           /\ [a.fields[4] EXCEPT !.value = 0, !.description = None]
                  = [b.fields[4] EXCEPT !.value = 0, !.description = None]

\* C27: ISS2 and IL never influence the rest of decode.  The result for an
\* ESR, the result for the same ESR with ISS2 and IL cleared and the result
\* with every one of those six bits flipped fail with the same error or agree
\* on everything but the ISS2 value and the IL value and description.
C27_Iss2IlIndependent ==
    Done("decode") =>
        /\ SameButIss2Il(result, decode(WithIss2Il(input, 0, 0)))
        /\ SameButIss2Il(result, decode(WithIss2Il(input, 31 - EsrIss2, 1 - EsrIl)))
        /\ result.ok => /\ result.fields[2].value = EsrIss2
                        /\ result.fields[4].value = EsrIl

\* C27 witness: an ESR with ISS2 and IL set decodes, and its fields are those
\* of the ESR with ISS2 and IL cleared apart from the two values.
C27_Witness ==
    /\ Done("decode")
    /\ EsrIss2 = 31 /\ EsrIl = 1
    /\ result.ok
    /\ result.fields[2].value = 31
    /\ decode(WithIss2Il(input, 0, 0)).ok
    /\ decode(WithIss2Il(input, 0, 0)).fields[2].value = 0
    /\ decode(WithIss2Il(input, 0, 0)).fields[5] = result.fields[5]

\* No field of the sequence has subfields.
NoSubfields(fields) == \A i \in 1..Len(fields) : fields[i].subfields = <<>>

\* C28: a successful decode gives a tree of depth two: ISS has at least one
\* subfield, the other four top-level fields have none, no ISS subfield has
\* subfields, and ISS has a description exactly for EC 0x18.  The fields of
\* decode_midr and decode_smccc have no subfields.
C28_DepthTwo ==
    /\ (Done("decode") /\ result.ok) =>
           /\ Len(result.fields) = 5
           /\ result.fields[5].name = "ISS"
           /\ Len(result.fields[5].subfields) >= 1
           /\ NoSubfields(SubSeq(result.fields, 1, 4))
           /\ NoSubfields(result.fields[5].subfields)
           /\ result.fields[5].description # None <=> EsrEc = 24
    /\ ((Done("decode_midr") \/ Done("decode_smccc")) /\ result.ok) =>
           /\ Len(result.fields) >= 2
           /\ NoSubfields(result.fields)

\* C28 witness: a trapped MSR/MRS decodes with a described ISS holding eight
\* leaf subfields.
C28_Witness ==
    /\ Done("decode")
    /\ EsrEc = 24
    /\ result.ok
    /\ result.fields[5].description # None
    /\ Len(result.fields[5].subfields) = 8
    /\ NoSubfields(result.fields[5].subfields)
    /\ NoSubfields(SubSeq(result.fields, 1, 4))

(***************************************************************************)
(* Properties of from_conditional_field, under SysregsSpec.                *)
(***************************************************************************)
\* What each option of the conditional field of the input converts to.
ConvertedOptions ==
    [i \in 1..Len(input.field.fields) |->
        from_field_entry(input.field.fields[i],
                         input.offset + input.field.rangeset[1].start)]

\* The orders in which the options of a sequence can be listed.
Reorderings(options) ==
    { [i \in 1..Len(options) |-> options[p[i]]] :
        p \in { q \in [1..Len(options) -> 1..Len(options)] :
                  \A i, j \in 1..Len(options) : q[i] = q[j] => i = j } }

\* C29, as claimed: for a conditional field with a single range whose options
\* all convert without panicking, from_conditional_field returns the common
\* result when every option converts to the same result, returns None when
\* any two options convert to different results (None against Some included),
\* and returns the same for every order of the options.
C29_ConditionalAgreeOrDrop ==
    ( /\ pc = "done" /\ op = "from_conditional_field"
      /\ Len(input.field.rangeset) = 1
      /\ Len(input.field.fields) >= 1
      /\ \A i \in 1..Len(input.field.fields) : ~ConvertedOptions[i].panicked ) =>
        /\ ~result.panicked
        /\ (\A i, j \in 1..Len(input.field.fields) :
                ConvertedOptions[i] = ConvertedOptions[j]) =>
               result.value = ConvertedOptions[1].value
        /\ (\E i, j \in 1..Len(input.field.fields) :
                ConvertedOptions[i] # ConvertedOptions[j]) =>
               result.value = None
        /\ \A reordered \in Reorderings(input.field.fields) :
               result = from_conditional_field([input.field EXCEPT !.fields = reordered],
                                               input.offset)

(***************************************************************************)
(* Properties of the rendered table, under WebSpec.                        *)
(***************************************************************************)
RECURSIVE ColspanSum(_)
ColspanSum(cells) ==
    IF cells = <<>> THEN 0 ELSE cells[1].colspan + ColspanSum(Tail(cells))

\* The width show_decoded is called with by the entry point of the state.
NrBit == IF op = "web decode_smccc" THEN 32 ELSE 64

\* The text parsed and its decode succeeded: show_decoded rendered fields.
Rendered == pc = "done" /\ result.error_text = None /\ result.error = None

\* C30: for every successful decode result shown, no filler width underflows
\* in any of the four field rows (every colspan is the non-negative
\* difference the code computes), and the colspans of the top-level name row
\* and of the top-level description row each sum to nr_bit.
C30_TableColspans ==
    Rendered =>
        /\ parse_number(input).ok
        /\ Len(result.table) = 6
        /\ \A r \in 3..6 :
               /\ ~result.table[r].underflow
               /\ \A c \in 1..Len(result.table[r].cells) :
                      result.table[r].cells[c].colspan >= 1
               /\ ColspanSum(result.table[r].cells) <= NrBit
        /\ ColspanSum(result.table[3].cells) = NrBit
        /\ ColspanSum(result.table[4].cells) = NrBit

\* C30 witness: the Data Abort 0x96000004 has been rendered; its second-level
\* name row starts with a filler for the 39 bits above the ISS.
C30_Witness ==
    /\ Rendered /\ op = "web decode_esr"
    /\ input = "0x96000004"
    /\ get_bits(parse_number(input).value, 26, 32) = 37
    /\ Len(result.table) = 6
    /\ Len(result.table[3].cells) = 5
    /\ ColspanSum(result.table[3].cells) = 64
    /\ result.table[5].cells[1] = make_cell(None, None, 39)
    /\ Len(result.table[5].cells) > 2

\* The other branch of the entry point: a text parse_number rejects leaves
\* the message of show_error and an empty table, and nothing is rendered.
C30_RejectedText ==
    /\ pc = "done" /\ op = "web decode_esr"
    /\ input = "123abc"
    /\ ~parse_number(input).ok
    /\ result = show_error("Invalid ESR")
    /\ ~Rendered

============================================================================
